---------------------------- MODULE Spec2Model ----------------------------
(***************************************************************************)
(* RidenRD60xxMQTT bridge: reverse-connection onboarding with the          *)
(* IP -> identity cache (RD60xxToMQTT), the per-PSU worker task (Bridge),  *)
(* the register reads of RD60xx.get_state / set_state and the inbound MQTT *)
(* command routing.                                                        *)
(*                                                                         *)
(* Times and periods are integers in centiseconds (0.1 s = 10).            *)
(* Python's None is modelled by absence from a dictionary's DOMAIN, by     *)
(* session number 0, or by the empty tuple for a missing payload field.    *)
(* asyncio runs one task at a time, so every action is the code between    *)
(* two awaits of one task or callback.                                     *)
(*                                                                         *)
(* Left out: MQTT discovery (taken as disabled, so that registering a      *)
(* bridge and sending the PSU list is one step of _psu_task), and a failing  *)
(* publish (aiomqtt.MqttError is ignored by the code and the message       *)
(* counts as handed over).  In the process model a register read is a full *)
(* response, a ModbusException or a short response; what the registers     *)
(* hold, and how set_state and get_state scale it, is modelled apart in    *)
(* the variable codec.                                                     *)
(***************************************************************************)
EXTENDS Integers, Sequences, FiniteSets, TLC

---------------------------------------------------------------------------
(* Bounds of the model *)

\* TCP connections opened by PSUs during one run
MaxSessions == 2
\* inbound MQTT messages handled during one run
MaxMsgs == 2
\* clock advances followed while PSUs are onboarded / while a bridge runs
MaxOnboardTicks == 2
MaxBridgeTicks == 2

\* amounts (centiseconds) by which the clock is seen to advance between two
\* steps while PSUs are onboarded / while a bridge runs
OnboardClockSteps == {10}
BridgeClockSteps == {50}
\* source addresses and physical PSUs (a PSU's identity is "<model>_<serial>")
Hosts == {"h1", "h2"}
Devices == {"d1", "d2"}
Identities == Devices
\* configured ip_to_identity_cache_timeout_secs values (centiseconds)
TtlChoices == {0, 10}
\* configured default_update_period values (centiseconds): the constructor's
\* default 0 and half a second
DefaultPeriodChoices == {0, 50}
\* "period" values of type int or float carried by set payloads
\* (centiseconds); Periods adds float("nan")
PeriodInputs == {-5, 0, 5, 50}

(* Program constants *)

\* asyncio.Queue(maxsize=16) of newly connected PSUs
NEW_PSU_QUEUE_MAXSIZE == 16
\* asyncio.Queue(maxsize=64) of one bridge's requests
INBOUND_QUEUE_MAXSIZE == 64
\* max(update_period, 0.1)
MIN_UPDATE_PERIOD == 10
\* _delayed_state_query(identity, psu, 0.5)
STATE_QUERY_DELAY == 50
\* RD60xx.PRESET_READ_INTERVAL = 5 sec
PRESET_READ_INTERVAL == 500

Sessions == 1..MaxSessions

---------------------------------------------------------------------------
VARIABLES
    now,                \* time.monotonic()
    ticks,              \* clock advances seen so far
    ttl,                \* RD60xxToMQTT._ip_to_identity_cache_timeout_secs
    set_clock,          \* RD60xxToMQTT._set_clock_on_connection
    default_update_period, \* RD60xxToMQTT._default_update_period
    shutdown,           \* run() got past _shutdown_event.wait()
    mqtt_client,        \* RD60xxToMQTT._mqtt_client is not None
    nconn,              \* sessions created so far
    msgs,               \* inbound MQTT messages handled since the initial state
    last_set,           \* _mqtt_inbound's identity / payload.get("period") at
                        \* the latest state/set message, and its number
    shost, sdev,        \* peer address of a session, PSU behind it
    sstate,             \* "unborn" | "open" | "closed": the session's transport
    presets,            \* RD60xx._presets is not None
    presets_last_read,  \* RD60xx._presets_last_read
    gs,                 \* await position inside RD60xx.get_state
    new_psu_queue,      \* RD60xxToMQTT._new_psu_queue
    opc, ocur,          \* _psu_task: await position, session being onboarded
    task_model,         \* _psu_task's locals model / serial_no (PSU they are of)
    identity_cache,     \* _psu_task's identity_cache: host -> <<identity, time>>
    queries,            \* get_state calls made by _psu_task for a session
    psu_states,         \* PSUStates._state: identity -> update_period
    psus,               \* RD60xxToMQTT._psus: identity -> session of its bridge
    pending,            \* RD60xxToMQTT._pending_state_queries
    delayed,            \* sleeping _delayed_state_query tasks
    bident, bmodel,     \* Bridge._identity, Bridge._model / _serial_no
    wpc,                \* Bridge._psu_task: await position
    wctx,               \* which part of the main loop awaits the request
    wend,               \* how Bridge._psu_task ended
    wq,                 \* Bridge._inbound_queue
    wops,               \* register operations left in RD60xx.set_state
    wcur,               \* number of the queue entry being processed
    wseq,               \* entries accepted into Bridge._inbound_queue so far
    last_get,           \* _mqtt_inbound's identity / payload.get("query", False)
                        \* at the latest state/get message
    last_io,            \* the latest register operation: number of the entry
                        \* it was done for, and whether it was a write
    last_query_time,    \* Bridge._last_query_time
    last_poll_time,     \* clock reading at which the latest periodic
                        \* _get_state of the bridge began (-1: none yet)
    deadline,           \* expiry of the wait_for timeout (-1: no timeout)
    snap,               \* register blocks read in full by the running get_state
    curr_time,          \* _read_presets' local curr_time
    otime,              \* _psu_task's local time_now
    mqtt_out,           \* latest message handed to the broker
    codec               \* one setpoint on its way through RD60xx.set_state,
                        \* the PSU's register and RD60xx.get_state

vars == << now, ticks, ttl, set_clock, default_update_period, shutdown, mqtt_client, nconn, msgs,
           last_set, last_get, shost, sdev,
           sstate, presets, presets_last_read, gs, new_psu_queue, opc, ocur,
           task_model, identity_cache, queries, psu_states, psus, pending,
           delayed, bident, bmodel, wpc, wctx, wend, wq, wops, wcur, wseq,
           last_io, last_query_time, last_poll_time, deadline, snap,
           curr_time, otime, mqtt_out, codec >>

\* groups used in UNCHANGED
cfgVars == << ttl, set_clock, default_update_period >>
inVars == << msgs, last_set, last_get >>
sessVars == << nconn, shost, sdev >>
readVars == << presets, presets_last_read, gs, snap, curr_time >>
taskVars == << opc, ocur, otime, task_model, identity_cache, queries >>
bridgeVars == << bident, bmodel >>
loopVars == << wpc, wctx, wend, wops, wcur, last_io, last_query_time,
              last_poll_time, deadline >>
queueVars == << wq, wseq >>
debounceVars == << pending, delayed >>

---------------------------------------------------------------------------
(* Dictionaries *)

DictGet(d, k, default) == IF k \in DOMAIN d THEN d[k] ELSE default

DictSet(d, k, v) == [x \in DOMAIN d \cup {k} |-> IF x = k THEN v ELSE d[x]]

DictDel(d, k) == [x \in DOMAIN d \ {k} |-> d[x]]

EmptyDict == [x \in {} |-> 0]

\* identity = f"{model}_{serial_no}" of the PSU answering the query
IdentityOf(dev) == dev

Max(a, b) == IF a >= b THEN a ELSE b

\* float("nan"), which json.loads yields for the literal NaN: unequal to
\* every number, and every order comparison with it is false
NaN == -1000

Gt(a, b) == a # NaN /\ b # NaN /\ a > b

Ge(a, b) == a # NaN /\ b # NaN /\ a >= b

\* the builtin max(a, b): a, unless b > a
PyMax(a, b) == IF Gt(b, a) THEN b ELSE a

\* Optional values: <<>> is None, <<x>> is x
None == <<>>
Some(x) == <<x>>

---------------------------------------------------------------------------
(* RD60xx: scaling of the setpoint registers.  Voltages and currents are    *)
(* integers counted in 1/Unit of a volt or ampere; every scale divides Unit. *)

Unit == 10000

\* RD60xxRegisters
M0_V == 80
M1_V == 84
M9_OCP == 119

DEFAULT_VOLTAGE_SCALE == 100
MODEL_VOLTAGE_SCALINGS == DictSet(EmptyDict, 60125, 1000)

\* (scale, uses current range)
DEFAULT_CURRENT_SCALE == <<100, FALSE>>
MODEL_CURRENT_SCALINGS ==
    DictSet(DictSet(EmptyDict, 6006, <<1000, FALSE>>), 60125, <<1000, TRUE>>)

\* lookup with and without hardware revision
ModelScaling(table, model_inc_hw_rev, default) ==
    IF model_inc_hw_rev \in DOMAIN table
    THEN table[model_inc_hw_rev]
    ELSE DictGet(table, model_inc_hw_rev \div 10, default)

voltage_scale(model) ==
    ModelScaling(MODEL_VOLTAGE_SCALINGS, model, DEFAULT_VOLTAGE_SCALE)

current_scale_without_range(model) ==
    ModelScaling(MODEL_CURRENT_SCALINGS, model, DEFAULT_CURRENT_SCALE)[1]

use_current_range(model) ==
    ModelScaling(MODEL_CURRENT_SCALINGS, model, DEFAULT_CURRENT_SCALE)[2]

\* if use_current_range: if current_range == 0: current_scale *= 10
current_scale(model, current_range) ==
    IF use_current_range(model) /\ current_range = 0
    THEN current_scale_without_range(model) * 10
    ELSE current_scale_without_range(model)

SetpointFields == {"output_voltage_set", "output_current_set", "ovp", "ocp"}

\* RD60xx.set_state: the scale a setpoint is multiplied by
EncodeScale(field, model, current_range) ==
    CASE field = "output_voltage_set" -> voltage_scale(model)
      [] field = "output_current_set" -> current_scale(model, current_range)
      [] field = "ovp" -> voltage_scale(model)
      [] field = "ocp" -> current_scale(model, current_range)

\* RD60xx.get_state: the scale a setpoint's register is divided by
DecodeScale(field, model, current_range) ==
    CASE field = "output_voltage_set" -> voltage_scale(model)
      [] field = "output_current_set" -> current_scale(model, current_range)
      [] field = "ovp" -> voltage_scale(model)
      [] field = "ocp" -> current_scale_without_range(model)

\* int(): truncation toward zero
Trunc(n, d) == IF n >= 0 THEN n \div d ELSE -((-n) \div d)

\* int(value * scale)
Encode(value, scale) == Trunc(value * scale, Unit)

\* register / scale
Decode(register, scale) == (register * Unit) \div scale

Abs(x) == IF x >= 0 THEN x ELSE -x

\* RD60xx._read_presets: registers asked for
read_count == M9_OCP - M1_V + 1

\* faulty variant of DecodePresets: the last group of four is left out
DecodePresetsDropsLast(regs, vscale, cscale) ==
    [k \in 1..((Len(regs) \div 4) - 1) |->
        << Decode(regs[4 * (k - 1) + 1], vscale),
           Decode(regs[4 * (k - 1) + 2], cscale),
           Decode(regs[4 * (k - 1) + 3], vscale),
           Decode(regs[4 * (k - 1) + 4], cscale) >>]

\* RD60xx._read_presets: for i in range(0, len(regs), 4), regs being the
\* registers from M1_V on
DecodePresets(regs, vscale, cscale) ==
    [k \in 1..((Len(regs) + 3) \div 4) |->
        << Decode(regs[4 * (k - 1) + 1], vscale),
           Decode(regs[4 * (k - 1) + 2], cscale),
           Decode(regs[4 * (k - 1) + 3], vscale),
           Decode(regs[4 * (k - 1) + 4], cscale) >>]

\* the codec is not in use
CodecIdle ==
    [pc |-> "idle", model |-> 0, current_range |-> 0, field |-> "ovp",
     value |-> 0, register |-> 0, out |-> 0, presets |-> <<>>]

---------------------------------------------------------------------------
(* Faulty variants of operators below; each property that rests on the     *)
(* operator must tell the variant from the original.                       *)

\* a response with too few registers is taken as complete
ReadAcceptedAnyLength(outcome) == outcome \in {"ok", "short"}

\* the newest entry is taken first
NextEntryNewest(q) == q[Len(q)]

\* an entry exactly as old as the timeout counts as expired
CacheHitBelowTtl(h) ==
    /\ h \in DOMAIN identity_cache
    /\ now - identity_cache[h][2] < ttl

\* a timeout of 0 is taken as "entries never expire"
CacheHitZeroForever(h) ==
    /\ h \in DOMAIN identity_cache
    /\ (ttl = 0 \/ ~(now - identity_cache[h][2] > ttl))

\* the session of a failed identity query is left open
CloseSessionForgotten(st, s) == st

\* the query is forwarded whatever the payload says
ForwardGetAlways(query, identity) == identity \in DOMAIN psus

\* every state-changing command schedules a delayed state query
SchedulesQueryAlways(req, identity) ==
    \E f \in DOMAIN req : req[f] # "absent"

\* the queue takes every entry
PutNowaitUnbounded(q, e) == Append(q, e)

\* the onboarding queue takes every session
NewPsuAcceptedAlways(q) == TRUE

\* a field that fails coercion is skipped, the others are applied
CoercibleSkipsBadField(req) == TRUE

\* a lookup that may create hands out a fresh state every time
GetStateResets(states, identity, create) ==
    IF create \/ identity \in DOMAIN states
    THEN DictSet(states, identity, IF create THEN 0 ELSE states[identity])
    ELSE states

\* the loop is left after a request instead of going on
ReturnPcLeavesLoop(ctx) == "done"

\* voltage and current are always written one register at a time
SetStateOpsSingleWrites(req, dev) ==
    LET v == req["output_voltage_set"]
        c == req["output_current_set"]
        If(cond, s) == IF cond THEN s ELSE <<>>
    IN  <<"rd_model">>
        \o If(dev = "d2", <<"rd_range">>)
        \o If(v = "inf" \/ c = "inf", <<"raise">>)
        \o If(req["preset_index"] # "absent", <<"wr_preset">>)
        \o If(v # "absent", <<"wr_v">>)
        \o If(c # "absent", <<"wr_c">>)
        \o If(req["ovp"] = "inf", <<"raise">>)
        \o If(req["ovp"] = "ok", <<"wr_ovp">>)
        \o If(req["ocp"] = "inf", <<"raise">>)
        \o If(req["ocp"] = "ok", <<"wr_ocp">>)
        \o If(req["output_enable"] # "absent", <<"wr_enable">>)
        \o If(req["output_toggle"] = "ok", <<"rd_enable", "wr_toggle">>)

\* an address that has a cache entry keeps it: only the first resolution
\* from an address is recorded
RefreshCacheFirstOnly(cache, h, identity, time_now) ==
    IF h \in DOMAIN cache
    THEN cache
    ELSE [x \in DOMAIN cache \cup {h} |->
            IF x = h THEN <<identity, time_now>> ELSE cache[x]]

\* the wait always lasts a whole period, however long ago the last
\* successful query was
WaitDeadlineWholePeriod(s) ==
    IF Gt(psu_states[bident[s]], 0) THEN now + psu_states[bident[s]] ELSE -1

\* presets are read once and never refreshed
PresetsDueWhenEmptyOnly(s) == ~presets[s]

\* presets are refreshed by age alone, also when none were ever read
PresetsDueByAgeOnly(s) == now - presets_last_read[s] > PRESET_READ_INTERVAL

\* the periodic check does not test whether polling is enabled
PollDueWhenDisabled(s) ==
    Gt(now - last_query_time[s], psu_states[bident[s]])

\* the create flag is ignored: a missing identity always gets a state
GetStateAlwaysCreates(states, identity, create) ==
    IF identity \notin DOMAIN states
    THEN DictSet(states, identity, 0)
    ELSE states

---------------------------------------------------------------------------
(* Payloads of set commands and queue entries *)

SetFields == {"preset_index", "output_voltage_set", "output_current_set",
              "ovp", "ocp", "output_enable", "output_toggle"}

Periods == PeriodInputs \cup {NaN}

\* a field is absent, a finite number or true ("ok"), false ("off"),
\* not coercible ("abc": "bad"), or 1e999 ("inf")
NoFields == [f \in SetFields |-> "absent"]

\* the payloads of set commands the model sends
SetPayloads ==
    { [period |-> p, f |-> fs] :
        p \in {None} \cup {Some(x) : x \in Periods},
        fs \in { NoFields,
                 [NoFields EXCEPT !["output_voltage_set"] = "ok"],
                 [NoFields EXCEPT !["output_voltage_set"] = "bad"],
                 [NoFields EXCEPT !["ovp"] = "inf"] } }

Payload(p, field, status) ==
    [period |-> p, f |-> [NoFields EXCEPT ![field] = status]]

\* a preset number and an OVP that coerce around a voltage that does not
PartlyBadFields ==
    [NoFields EXCEPT !["preset_index"] = "ok",
                     !["output_voltage_set"] = "bad",
                     !["ovp"] = "ok"]

\* the payloads sent to a running bridge
BridgePayloads ==
    { Payload(None, "output_voltage_set", "ok"),
      [period |-> None, f |-> PartlyBadFields],
      Payload(None, "ovp", "inf"),
      Payload(Some(50), "ovp", "absent") }

GetEntry(n) == [set |-> FALSE, req |-> NoFields, n |-> n]
SetEntry(req, n) == [set |-> TRUE, req |-> req, n |-> n]

\* Bridge.queue_state_get / queue_state_set: put_nowait, QueueFull ignored
PutNowait(q, e) == IF Len(q) < INBOUND_QUEUE_MAXSIZE THEN Append(q, e) ELSE q

Accepted(q) == Len(q) < INBOUND_QUEUE_MAXSIZE

\* Bridge._psu_task_func takes the oldest entry: asyncio.Queue is FIFO
NextEntry(q) == Head(q)

RestEntries(q) == Tail(q)

\* RD60xxToMQTT._mqtt_inbound: if update_period != 0: max(update_period, 0.1)
ClampPeriod(p) == IF p # 0 THEN PyMax(p, MIN_UPDATE_PERIOD) ELSE p

\* Bridge._set_state: int() / float() of every supplied field; int(1e999) raises
Coercible(req) ==
    /\ req["preset_index"] \in {"absent", "ok"}
    /\ \A f \in {"output_voltage_set", "output_current_set", "ovp", "ocp"} :
          req[f] # "bad"

\* MODEL_CURRENT_SCALINGS: 60125 uses the current range register
UsesCurrentRange(dev) == dev = "d2"

SeqIf(c, s) == IF c THEN s ELSE <<>>

\* RD60xx.set_state: the awaited register operations in order; "raise" is
\* int(inf * scale) raising OverflowError at that place
SetStateOps(req, dev) ==
    LET v == req["output_voltage_set"]
        c == req["output_current_set"]
    IN  <<"rd_model">>
        \o SeqIf(UsesCurrentRange(dev), <<"rd_range">>)
        \o SeqIf(v = "inf" \/ c = "inf", <<"raise">>)
        \o SeqIf(req["preset_index"] # "absent", <<"wr_preset">>)
        \o (IF v # "absent" /\ c # "absent" THEN <<"wr_vc">>
            ELSE IF v # "absent" THEN <<"wr_v">>
            ELSE IF c # "absent" THEN <<"wr_c">>
            ELSE <<>>)
        \o SeqIf(req["ovp"] = "inf", <<"raise">>)
        \o SeqIf(req["ovp"] = "ok", <<"wr_ovp">>)
        \o SeqIf(req["ocp"] = "inf", <<"raise">>)
        \o SeqIf(req["ocp"] = "ok", <<"wr_ocp">>)
        \o SeqIf(req["output_enable"] # "absent", <<"wr_enable">>)
        \o SeqIf(req["output_toggle"] = "ok", <<"rd_enable", "wr_toggle">>)

IsRead(op) == op \in {"rd_model", "rd_range", "rd_enable"}

---------------------------------------------------------------------------
(* Register I/O of a session *)

\* a response with all registers, a ModbusException, a response with too few
ReadOutcomes == {"ok", "io_error", "short"}

\* nothing is answered on a closed transport
OutcomesFor(s) == IF sstate[s] = "open" THEN ReadOutcomes ELSE {"io_error"}

\* RD60xx.get_state: if len(regs) != read_count: raise
ReadAccepted(outcome) == outcome = "ok"

\* RD60xx._read_presets: refresh when stale or never read
PresetsDue(s) ==
    now - presets_last_read[s] > PRESET_READ_INTERVAL \/ ~presets[s]

\* RD60xx.get_state is entered: the first block read is awaited
GetStateBegin(s) ==
    /\ gs' = [gs EXCEPT ![s] = "rdA"]
    /\ snap' = [snap EXCEPT ![s] = {}]
    /\ UNCHANGED << presets, presets_last_read, curr_time >>

Got(outcome, block) == IF outcome = "ok" THEN {block} ELSE {}

\* RD60xx.get_state resumes with the awaited read's outcome; res is "pending"
\* (another read is awaited), "state" (a snapshot is returned) or "None"
GetStateAdvance(s, outcome, res) ==
    IF ~ReadAccepted(outcome)
    THEN /\ res = "None"
         /\ gs' = [gs EXCEPT ![s] = "idle"]
         /\ UNCHANGED << presets, presets_last_read, curr_time, snap >>
    ELSE CASE gs[s] = "rdA" ->
                /\ res = "pending"
                /\ gs' = [gs EXCEPT ![s] = "rdB"]
                /\ snap' = [snap EXCEPT ![s] = @ \cup Got(outcome, "a")]
                /\ UNCHANGED << presets, presets_last_read, curr_time >>
           [] gs[s] = "rdB" ->
                IF PresetsDue(s)
                THEN /\ res = "pending"
                     /\ gs' = [gs EXCEPT ![s] = "rdP"]
                     /\ curr_time' = [curr_time EXCEPT ![s] = now]
                     /\ snap' = [snap EXCEPT ![s] = @ \cup Got(outcome, "b")]
                     /\ UNCHANGED << presets, presets_last_read >>
                ELSE /\ res = "state"
                     /\ gs' = [gs EXCEPT ![s] = "idle"]
                     /\ snap' = [snap EXCEPT ![s] =
                                    @ \cup Got(outcome, "b") \cup {"p"}]
                     /\ UNCHANGED << presets, presets_last_read, curr_time >>
           [] OTHER ->
                /\ res = "state"
                /\ gs' = [gs EXCEPT ![s] = "idle"]
                /\ presets' = [presets EXCEPT ![s] = TRUE]
                /\ presets_last_read' =
                       [presets_last_read EXCEPT ![s] = curr_time[s]]
                /\ snap' = [snap EXCEPT ![s] = @ \cup Got(outcome, "p")]
                /\ UNCHANGED curr_time

AllBlocks == {"a", "b", "p"}

---------------------------------------------------------------------------
(* Messages handed to the broker *)

NoIds == {}

OutMsg(kind, identity, connected, period, blocks, ids) ==
    [n |-> 1 - mqtt_out.n, kind |-> kind, identity |-> identity,
     connected |-> connected, period |-> period, blocks |-> blocks,
     ids |-> ids]

\* RD60xxToMQTT._mqtt_outbound / _send_psu_list: only with a broker connection
Publish(m) == IF mqtt_client THEN mqtt_out' = m ELSE UNCHANGED mqtt_out

\* the period and presence of a PSU's persistent state
PeriodOf(identity) == DictGet(psu_states, identity, 0)


---------------------------------------------------------------------------
(* Initial state: RD60xxToMQTT.__init__, before any PSU has connected *)

Constructed ==
    /\ now = 0
    /\ ticks = 0
    /\ ttl \in TtlChoices
    /\ set_clock \in BOOLEAN
    /\ default_update_period \in DefaultPeriodChoices
    /\ shutdown = FALSE
    /\ mqtt_client = FALSE
    /\ nconn = 0
    /\ msgs = 0
    /\ last_set = [n |-> 0, identity |-> "d1", period |-> None]
    /\ last_get = [identity |-> "d1", query |-> FALSE]
    /\ shost = [s \in Sessions |-> "h1"]
    /\ sdev = [s \in Sessions |-> "d1"]
    /\ sstate = [s \in Sessions |-> "unborn"]
    /\ presets = [s \in Sessions |-> FALSE]
    /\ presets_last_read = [s \in Sessions |-> 0]
    /\ gs = [s \in Sessions |-> "idle"]
    /\ snap = [s \in Sessions |-> {}]
    /\ curr_time = [s \in Sessions |-> 0]
    /\ new_psu_queue = <<>>
    /\ opc = "get"
    /\ ocur = 0
    /\ otime = 0
    /\ task_model = "unbound"
    /\ identity_cache = EmptyDict
    /\ queries = [s \in Sessions |-> 0]
    /\ psu_states = EmptyDict
    /\ psus = EmptyDict
    /\ pending = {}
    /\ delayed = {}
    /\ bident = [s \in Sessions |-> "d1"]
    /\ bmodel = [s \in Sessions |-> "unbound"]
    /\ wpc = [s \in Sessions |-> "none"]
    /\ wctx = [s \in Sessions |-> "drain"]
    /\ wend = [s \in Sessions |-> "running"]
    /\ wq = [s \in Sessions |-> <<>>]
    /\ wops = [s \in Sessions |-> <<>>]
    /\ wcur = [s \in Sessions |-> 0]
    /\ wseq = [s \in Sessions |-> 0]
    /\ last_io = [s \in Sessions |-> [n |-> 0, write |-> FALSE]]
    /\ last_query_time = [s \in Sessions |-> 0]
    /\ last_poll_time = [s \in Sessions |-> -1]
    /\ deadline = [s \in Sessions |-> -1]
    /\ mqtt_out = [n |-> 0, kind |-> "none", identity |-> "d1",
                   connected |-> FALSE, period |-> 0, blocks |-> {},
                   ids |-> NoIds]

Init == Constructed /\ codec = CodecIdle

---------------------------------------------------------------------------
(* The clock and the broker connection *)

Tick(steps, maxTicks) ==
    /\ ~shutdown
    /\ ticks < maxTicks
    /\ ticks' = ticks + 1
    /\ \E d \in steps : now' = now + d
    /\ UNCHANGED << cfgVars, codec, shutdown, mqtt_client, inVars, sessVars, sstate,
                    readVars, new_psu_queue, taskVars, psu_states, psus,
                    debounceVars, bridgeVars, loopVars, queueVars, mqtt_out >>

\* _mqtt_inbound: the aiomqtt client context is entered
MqttConnected ==
    /\ ~shutdown
    /\ ~mqtt_client
    /\ mqtt_client' = TRUE
    /\ UNCHANGED << now, ticks, cfgVars, codec, shutdown, inVars, sessVars, sstate, readVars,
                    new_psu_queue, taskVars, psu_states, psus, debounceVars,
                    bridgeVars, loopVars, queueVars, mqtt_out >>

\* _mqtt_inbound: except aiomqtt.MqttError
MqttError ==
    /\ ~shutdown
    /\ mqtt_client
    /\ mqtt_client' = FALSE
    /\ UNCHANGED << now, ticks, cfgVars, codec, shutdown, inVars, sessVars, sstate, readVars,
                    new_psu_queue, taskVars, psu_states, psus, debounceVars,
                    bridgeVars, loopVars, queueVars, mqtt_out >>

---------------------------------------------------------------------------
(* Cancelling bridge tasks *)

Alive(s) == wpc[s] \notin {"none", "done"}

\* Bridge.cancel: CancelledError is raised at the task's await, the handler
\* of _psu_task_func passes
CancelledPc(S) == [s \in DOMAIN wpc |-> IF s \in S /\ Alive(s) THEN "done" ELSE wpc[s]]

CancelledEnd(S) ==
    [s \in DOMAIN wend |-> IF s \in S /\ Alive(s) THEN "cancelled" ELSE wend[s]]

CancelledGs(S) == [s \in DOMAIN gs |-> IF s \in S /\ Alive(s) THEN "idle" ELSE gs[s]]

\* the bridges psu_disconnected cancels for a client: the one registered for it
BridgesOf(s) == {i \in DOMAIN psus : psus[i] = s}

---------------------------------------------------------------------------
(* Sessions *)

\* put_nowait on _new_psu_queue succeeds; otherwise QueueFull is raised
NewPsuAccepted(q) == Len(q) < NEW_PSU_QUEUE_MAXSIZE

\* RD60xxToMQTT.psu_connected, called from connection_made
PsuConnected(h, dev) ==
    /\ ~shutdown
    /\ nconn < MaxSessions
    /\ nconn = 0 => (h = "h1" /\ dev = "d1")
    /\ LET s == nconn + 1
       IN  /\ nconn' = s
           /\ shost' = [shost EXCEPT ![s] = h]
           /\ sdev' = [sdev EXCEPT ![s] = dev]
           /\ IF NewPsuAccepted(new_psu_queue)
              THEN /\ new_psu_queue' = Append(new_psu_queue, s)
                   /\ sstate' = [sstate EXCEPT ![s] = "open"]
              ELSE /\ new_psu_queue' = new_psu_queue
                   /\ sstate' = [sstate EXCEPT ![s] = "closed"]
    /\ UNCHANGED << now, ticks, cfgVars, codec, shutdown, mqtt_client, inVars, readVars,
                    taskVars, psu_states, psus, debounceVars, bridgeVars,
                    loopVars, queueVars, mqtt_out >>

\* RD60xxToMQTT.psu_disconnected, called from connection_lost when the peer
\* drops the connection
PsuDisconnected(s) ==
    /\ ~shutdown
    /\ sstate[s] = "open"
    /\ sstate' = [sstate EXCEPT ![s] = "closed"]
    /\ wpc' = CancelledPc({s} \cap {psus[i] : i \in BridgesOf(s)})
    /\ wend' = CancelledEnd({s} \cap {psus[i] : i \in BridgesOf(s)})
    /\ gs' = CancelledGs({s} \cap {psus[i] : i \in BridgesOf(s)})
    /\ psus' = [i \in DOMAIN psus \ BridgesOf(s) |-> psus[i]]
    /\ UNCHANGED << now, ticks, cfgVars, codec, shutdown, mqtt_client, inVars, sessVars,
                    presets, presets_last_read, snap, curr_time,
                    new_psu_queue, taskVars, psu_states, debounceVars,
                    bridgeVars, wctx, wops, wcur, last_io, last_query_time, last_poll_time,
                    deadline, queueVars, mqtt_out >>

---------------------------------------------------------------------------
(* RD60xxToMQTT._psu_task: onboarding of newly connected PSUs *)

\* PSUStates.get_state: the dictionary after the lookup; a missing identity
\* gets a PSUState (update period 0) only if create is set
GetState(states, identity, create) ==
    IF identity \notin DOMAIN states /\ create
    THEN DictSet(states, identity, 0)
    ELSE states

\* psu.close() of a session whose identity query returned None
CloseSession(st, s) == [st EXCEPT ![s] = "closed"]

\* the cached identity is used unless time_diff > cache timeout
CacheHit(h) ==
    /\ h \in DOMAIN identity_cache
    /\ ~(now - identity_cache[h][2] > ttl)

\* lines 597-601: last_connection = time_now and the identity map update
RefreshCache(cache, h, identity, time_now) ==
    DictSet(cache, h, <<identity, time_now>>)

\* state.update_period is None, for the numbers a PSUState holds
PeriodIsNone(period) == period \notin Int

\* lines 612-614: the default update period is stored if the period of the
\* state is None
ApplyDefault(states, identity, default) ==
    IF PeriodIsNone(states[identity])
    THEN DictSet(states, identity, default)
    ELSE states

\* the registration without the initial queue_state_get
RegisterWithoutGet(s, identity, model, time_now) ==
    /\ identity_cache' = RefreshCache(identity_cache, shost[s], identity, time_now)
    /\ psu_states' = ApplyDefault(GetState(psu_states, identity, TRUE), identity,
                                  default_update_period)
    /\ bident' = [bident EXCEPT ![s] = identity]
    /\ bmodel' = [bmodel EXCEPT ![s] = model]
    /\ wpc' = [wpc EXCEPT ![s] = "start"]
    /\ last_query_time' = [last_query_time EXCEPT ![s] = 0]
    /\ last_poll_time' = [last_poll_time EXCEPT ![s] = -1]
    /\ psus' = DictSet(psus, identity, s)
    /\ wq' = [wq EXCEPT ![s] = <<>>]
    /\ wseq' = [wseq EXCEPT ![s] = 0]
    /\ Publish(OutMsg("list", identity, TRUE, 0, {},
                      DOMAIN psus \cup {identity}))
    /\ opc' = "get"
    /\ ocur' = 0
    /\ task_model' = model

\* lines 597-629: cache update, persistent state, Bridge(...), registration,
\* initial queue_state_get, _send_psu_list
Register(s, identity, model, time_now) ==
    /\ identity_cache' = RefreshCache(identity_cache, shost[s], identity, time_now)
    /\ psu_states' = ApplyDefault(GetState(psu_states, identity, TRUE), identity,
                                  default_update_period)
    /\ bident' = [bident EXCEPT ![s] = identity]
    /\ bmodel' = [bmodel EXCEPT ![s] = model]
    /\ wpc' = [wpc EXCEPT ![s] = "start"]
    /\ last_query_time' = [last_query_time EXCEPT ![s] = 0]
    /\ last_poll_time' = [last_poll_time EXCEPT ![s] = -1]
    /\ psus' = DictSet(psus, identity, s)
    /\ wq' = [wq EXCEPT ![s] = PutNowait(<<>>, GetEntry(1))]
    /\ wseq' = [wseq EXCEPT ![s] = 1]
    /\ Publish(OutMsg("list", identity, TRUE, 0, {},
                      DOMAIN psus \cup {identity}))
    /\ opc' = "get"
    /\ ocur' = 0
    /\ task_model' = model

\* a PSU is taken from the queue and its identity looked up by address
OnboardBegin ==
    /\ ~shutdown
    /\ opc = "get"
    /\ new_psu_queue # <<>>
    /\ LET s == Head(new_psu_queue)
       IN  /\ new_psu_queue' = Tail(new_psu_queue)
           /\ otime' = now
           /\ IF CacheHit(shost[s])
              THEN /\ Register(s, identity_cache[shost[s]][1], task_model, now)
                   /\ UNCHANGED << queries, readVars >>
              ELSE /\ opc' = "query"
                   /\ ocur' = s
                   /\ queries' = [queries EXCEPT ![s] = @ + 1]
                   /\ GetStateBegin(s)
                   /\ UNCHANGED << task_model, identity_cache, psu_states,
                                   psus, bridgeVars, wpc, last_query_time, last_poll_time,
                                   queueVars, mqtt_out >>
    /\ UNCHANGED << now, ticks, cfgVars, codec, shutdown, mqtt_client, inVars, sessVars,
                    sstate, debounceVars, wctx, wend, wops, wcur, last_io,
                    deadline >>

\* a register read of the identity query returns
OnboardQuery ==
    /\ ~shutdown
    /\ opc = "query"
    /\ \E outcome \in OutcomesFor(ocur), res \in {"pending", "state", "None"} :
          /\ GetStateAdvance(ocur, outcome, res)
          /\ CASE res = "pending" ->
                    UNCHANGED << taskVars, sstate, psu_states, psus,
                                 bridgeVars, wpc, last_query_time, last_poll_time, queueVars,
                                 mqtt_out >>
               [] res = "None" ->
                    /\ sstate' = CloseSession(sstate, ocur)
                    /\ opc' = "get"
                    /\ ocur' = 0
                    /\ UNCHANGED << otime, task_model, identity_cache,
                                    queries, psu_states, psus, bridgeVars,
                                    wpc, last_query_time, last_poll_time, queueVars, mqtt_out >>
               [] OTHER ->
                    /\ Register(ocur, IdentityOf(sdev[ocur]), sdev[ocur], otime)
                    /\ UNCHANGED << otime, queries, sstate >>
    /\ UNCHANGED << now, ticks, cfgVars, codec, shutdown, mqtt_client, inVars, sessVars,
                    new_psu_queue, debounceVars, wctx, wend, wops, wcur,
                    last_io, deadline >>


---------------------------------------------------------------------------
(* Bridge._psu_task_func: the worker task of one PSU *)

\* the update period the worker reads from its PSUState
Period(s) == psu_states[bident[s]]

\* where the main loop goes on after a request: the drain loop (line 105) or,
\* after the request taken by wait_for, the periodic check (line 131)
ReturnPc(ctx) == IF ctx = "wait" THEN "check" ELSE "top"

\* except pymodbus.ModbusException: self.close() -- Bridge defines no close(),
\* the AttributeError is swallowed by the bare except around it
BridgeClose(st, s) == st

\* the task ends in one of the except clauses of _psu_task_func
Fail(s, how) ==
    /\ wpc' = [wpc EXCEPT ![s] = "done"]
    /\ wend' = [wend EXCEPT ![s] = how]
    /\ sstate' = IF how = "modbus" THEN BridgeClose(sstate, s) ELSE sstate

\* _process_queue_entry up to its first await
Process(s, e, ctx) ==
    /\ wctx' = [wctx EXCEPT ![s] = ctx]
    /\ wcur' = [wcur EXCEPT ![s] = e.n]
    /\ IF e.set
       THEN /\ IF Coercible(e.req)
               THEN /\ wpc' = [wpc EXCEPT ![s] = "set"]
                    /\ wops' = [wops EXCEPT ![s] = SetStateOps(e.req, sdev[s])]
               ELSE /\ wpc' = [wpc EXCEPT ![s] = ReturnPc(ctx)]
                    /\ wops' = wops
            /\ UNCHANGED readVars
       ELSE /\ wpc' = [wpc EXCEPT ![s] = "get"]
            /\ wops' = wops
            /\ GetStateBegin(s)

\* the task starts running: set_clock's write is awaited, or the loop entered
WStart(s) ==
    /\ ~shutdown
    /\ wpc[s] = "start"
    /\ wpc' = [wpc EXCEPT ![s] = IF set_clock THEN "clock" ELSE "top"]
    /\ UNCHANGED << now, ticks, cfgVars, codec, shutdown, mqtt_client, inVars, sessVars, sstate,
                    readVars, new_psu_queue, taskVars, psu_states, psus,
                    debounceVars, bridgeVars, wctx, wend, wops, wcur, last_io,
                    last_query_time, last_poll_time, deadline, queueVars, mqtt_out >>

\* RD60xx.set_clock's write_registers returns or raises
WClockDone(s) ==
    /\ ~shutdown
    /\ wpc[s] = "clock"
    /\ \E outcome \in OutcomesFor(s) \ {"short"} :
          IF outcome = "ok"
          THEN /\ wpc' = [wpc EXCEPT ![s] = "top"]
               /\ UNCHANGED << wend, sstate >>
          ELSE Fail(s, "modbus")
    /\ UNCHANGED << now, ticks, cfgVars, codec, shutdown, mqtt_client, inVars, sessVars,
                    readVars, new_psu_queue, taskVars, psu_states, psus,
                    debounceVars, bridgeVars, wctx, wops, wcur, last_io,
                    last_query_time, last_poll_time, deadline, queueVars, mqtt_out >>

\* timeout of wait_for: None (-1) or max(period - (now - last query), 0)
WaitDeadline(s) ==
    IF Gt(Period(s), 0)
    THEN now + Max(Period(s) - (now - last_query_time[s]), 0)
    ELSE -1

\* lines 105-121: the drain loop takes the next entry, or the queue is empty
\* and the task blocks in wait_for
WDrain(s) ==
    /\ ~shutdown
    /\ wpc[s] = "top"
    /\ IF wq[s] # <<>>
       THEN /\ wq' = [wq EXCEPT ![s] = RestEntries(wq[s])]
            /\ Process(s, NextEntry(wq[s]), "drain")
            /\ UNCHANGED deadline
       ELSE /\ wpc' = [wpc EXCEPT ![s] = "wait"]
            /\ deadline' = [deadline EXCEPT ![s] = WaitDeadline(s)]
            /\ UNCHANGED << wq, wctx, wcur, wops, readVars >>
    /\ UNCHANGED << now, ticks, cfgVars, codec, shutdown, mqtt_client, inVars, sessVars, sstate,
                    new_psu_queue, taskVars, psu_states, psus, debounceVars,
                    bridgeVars, wend, last_io, last_query_time, last_poll_time, wseq,
                    mqtt_out >>

\* lines 121-124: wait_for returns an entry
WWaitEntry(s) ==
    /\ ~shutdown
    /\ wpc[s] = "wait"
    /\ wq[s] # <<>>
    /\ wq' = [wq EXCEPT ![s] = RestEntries(wq[s])]
    /\ Process(s, NextEntry(wq[s]), "wait")
    /\ UNCHANGED << now, ticks, cfgVars, codec, shutdown, mqtt_client, inVars, sessVars, sstate,
                    new_psu_queue, taskVars, psu_states, psus, debounceVars,
                    bridgeVars, wend, last_io, last_query_time, last_poll_time, deadline, wseq,
                    mqtt_out >>

\* lines 126-128: wait_for raises TimeoutError
WWaitTimeout(s) ==
    /\ ~shutdown
    /\ wpc[s] = "wait"
    /\ deadline[s] >= 0
    /\ now >= deadline[s]
    /\ wpc' = [wpc EXCEPT ![s] = "check"]
    /\ UNCHANGED << now, ticks, cfgVars, codec, shutdown, mqtt_client, inVars, sessVars, sstate,
                    readVars, new_psu_queue, taskVars, psu_states, psus,
                    debounceVars, bridgeVars, wctx, wend, wops, wcur, last_io,
                    last_query_time, last_poll_time, deadline, queueVars, mqtt_out >>

\* lines 131-139: has the query period been reached
PollDue(s) ==
    /\ Gt(Period(s), 0)
    /\ Gt(now - last_query_time[s], Period(s))

\* lines 130-141: the periodic check
WCheck(s) ==
    /\ ~shutdown
    /\ wpc[s] = "check"
    /\ IF PollDue(s)
       THEN /\ wpc' = [wpc EXCEPT ![s] = "get"]
            /\ wctx' = [wctx EXCEPT ![s] = "poll"]
            /\ wcur' = [wcur EXCEPT ![s] = 0]
            /\ last_poll_time' = [last_poll_time EXCEPT ![s] = now]
            /\ GetStateBegin(s)
       ELSE /\ wpc' = [wpc EXCEPT ![s] = "top"]
            /\ UNCHANGED << wctx, wcur, readVars, last_poll_time >>
    /\ UNCHANGED << now, ticks, cfgVars, codec, shutdown, mqtt_client, inVars, sessVars, sstate,
                    new_psu_queue, taskVars, psu_states, psus, debounceVars,
                    bridgeVars, wend, wops, last_io, last_query_time, deadline,
                    queueVars, mqtt_out >>

\* the entry whose register operation has just run
IoBy(s, write) ==
    [last_io EXCEPT ![s] = IF wcur[s] # 0
                           THEN [n |-> wcur[s], write |-> write] ELSE @]

\* Bridge._get_state: a read of psu.get_state returns; with a snapshot the
\* state message is built and handed to the publish callback
WRead(s) ==
    /\ ~shutdown
    /\ wpc[s] = "get"
    /\ last_io' = IoBy(s, FALSE)
    /\ \E outcome \in OutcomesFor(s), res \in {"pending", "state", "None"} :
          /\ GetStateAdvance(s, outcome, res)
          /\ CASE res = "pending" ->
                    UNCHANGED << wpc, last_query_time, mqtt_out >>
               [] res = "None" ->
                    /\ wpc' = [wpc EXCEPT ![s] = ReturnPc(wctx[s])]
                    /\ UNCHANGED << last_query_time, mqtt_out >>
               [] OTHER ->
                    /\ Publish(OutMsg("state", bident[s], TRUE, Period(s),
                                      snap'[s], NoIds))
                    /\ IF mqtt_client
                       THEN /\ wpc' = [wpc EXCEPT ![s] = "pub"]
                            /\ UNCHANGED last_query_time
                       ELSE /\ wpc' = [wpc EXCEPT ![s] = ReturnPc(wctx[s])]
                            /\ last_query_time' =
                                   [last_query_time EXCEPT ![s] = now]
    /\ UNCHANGED << now, ticks, cfgVars, codec, shutdown, mqtt_client, inVars, sessVars, sstate,
                    new_psu_queue, taskVars, psu_states, psus, debounceVars,
                    bridgeVars, wctx, wend, wops, wcur, last_poll_time,
                    deadline, queueVars >>

\* lines 295-298: the publish callback returns, the query time is stamped
WPublished(s) ==
    /\ ~shutdown
    /\ wpc[s] = "pub"
    /\ last_query_time' = [last_query_time EXCEPT ![s] = now]
    /\ wpc' = [wpc EXCEPT ![s] = ReturnPc(wctx[s])]
    /\ UNCHANGED << now, ticks, cfgVars, codec, shutdown, mqtt_client, inVars, sessVars, sstate,
                    readVars, new_psu_queue, taskVars, psu_states, psus,
                    debounceVars, bridgeVars, wctx, wend, wops, wcur, last_io,
                    last_poll_time, deadline, queueVars, mqtt_out >>

\* a register operation of RD60xx.set_state returns or raises
WSetOp(s) ==
    /\ ~shutdown
    /\ wpc[s] = "set"
    /\ last_io' = IoBy(s, ~IsRead(Head(wops[s])))
    /\ \E outcome \in OutcomesFor(s) :
          /\ outcome = "short" => IsRead(Head(wops[s]))
          /\ CASE outcome = "io_error" ->
                    /\ Fail(s, "modbus")
                    /\ UNCHANGED wops
               [] outcome = "short" ->
                    /\ Fail(s, "exception")
                    /\ UNCHANGED wops
               [] OTHER ->
                    /\ wops' = [wops EXCEPT ![s] = Tail(@)]
                    /\ IF Tail(wops[s]) # <<>> /\ Head(Tail(wops[s])) = "raise"
                       THEN Fail(s, "exception")
                       ELSE /\ wpc' = [wpc EXCEPT ![s] =
                                         IF Tail(wops[s]) = <<>>
                                         THEN ReturnPc(wctx[s]) ELSE @]
                            /\ UNCHANGED << wend, sstate >>
    /\ UNCHANGED << now, ticks, cfgVars, codec, shutdown, mqtt_client, inVars, sessVars,
                    readVars, new_psu_queue, taskVars, psu_states, psus,
                    debounceVars, bridgeVars, wctx, wcur, last_query_time, last_poll_time,
                    deadline, queueVars, mqtt_out >>

---------------------------------------------------------------------------
(* RD60xxToMQTT._mqtt_inbound: inbound commands *)

StateChanging(req) == \E f \in SetFields : req[f] # "absent"

\* a delayed state query is scheduled if the command changes state and none
\* is pending for the identity
SchedulesQuery(req, identity) == StateChanging(req) /\ identity \notin pending

\* message on <base>/psu/<identity>/state/set with an object payload
MqttSet(identity, payload) ==
    /\ ~shutdown
    /\ mqtt_client
    /\ msgs < MaxMsgs
    /\ msgs' = msgs + 1
    /\ last_set' = [n |-> msgs + 1, identity |-> identity,
                    period |-> payload.period]
    /\ UNCHANGED last_get
    /\ LET states == GetState(psu_states, identity, FALSE)
       IN  psu_states' =
              IF payload.period # None /\ identity \in DOMAIN states
              THEN DictSet(states, identity, ClampPeriod(payload.period[1]))
              ELSE states
    /\ IF identity \in DOMAIN psus
       THEN LET s == psus[identity]
            IN  /\ wq' = [wq EXCEPT ![s] = PutNowait(@, SetEntry(payload.f, wseq[s] + 1))]
                /\ wseq' = [wseq EXCEPT ![s] = IF Accepted(wq[s]) THEN @ + 1 ELSE @]
                /\ IF SchedulesQuery(payload.f, identity)
                   THEN /\ pending' = pending \cup {identity}
                        /\ delayed' = delayed \cup
                              {[identity |-> identity, psu |-> s,
                                due |-> now + STATE_QUERY_DELAY]}
                   ELSE UNCHANGED debounceVars
       ELSE UNCHANGED << queueVars, debounceVars >>
    /\ UNCHANGED << now, ticks, cfgVars, codec, shutdown, mqtt_client, sessVars, sstate,
                    readVars, new_psu_queue, taskVars, psus, bridgeVars,
                    loopVars, mqtt_out >>

\* payload.get("query", False) and psu is not None (an undecodable payload
\* is None and counts as no query)
ForwardGet(query, identity) == query /\ identity \in DOMAIN psus

\* message on <base>/psu/<identity>/state/get; query is payload.get("query")
MqttGet(identity, query) ==
    /\ ~shutdown
    /\ mqtt_client
    /\ msgs < MaxMsgs
    /\ msgs' = msgs + 1
    /\ last_get' = [identity |-> identity, query |-> query]
    /\ IF ForwardGet(query, identity)
       THEN LET s == psus[identity]
            IN  /\ wq' = [wq EXCEPT ![s] = PutNowait(@, GetEntry(wseq[s] + 1))]
                /\ wseq' = [wseq EXCEPT ![s] = IF Accepted(wq[s]) THEN @ + 1 ELSE @]
                /\ UNCHANGED mqtt_out
       ELSE /\ Publish(OutMsg("status", identity, identity \in DOMAIN psus,
                              PeriodOf(identity), {}, NoIds))
            /\ UNCHANGED queueVars
    /\ UNCHANGED << last_set, now, ticks, cfgVars, codec, shutdown, mqtt_client, sessVars, sstate,
                    readVars, new_psu_queue, taskVars, psu_states, psus,
                    debounceVars, bridgeVars, loopVars >>

\* what json.loads yields for a payload that is valid JSON but no object:
\* a list, an int or float, a str, a bool
NonObjectKinds == {"array", "number", "string", "boolean"}

\* payload.get(...) exists only on the dict json.loads yields for an object;
\* on every other kind the attribute lookup raises AttributeError
HasGet(kind) == kind = "object"

\* message on a state/set or state/get topic whose payload is of the given
\* kind and no object: `not payload is None` holds, payload.get raises, the
\* exception leaves the message loop and the client context and reaches the
\* bare except of _mqtt_inbound, which drops the client
MqttNotObject(identity, topic, kind) ==
    /\ ~shutdown
    /\ mqtt_client
    /\ msgs < MaxMsgs
    /\ msgs' = msgs + 1
    /\ topic \in {"set", "get"}
    /\ mqtt_client' = IF HasGet(kind) THEN mqtt_client ELSE FALSE
    /\ UNCHANGED << last_set, last_get, now, ticks, cfgVars, codec, shutdown, sessVars,
                    sstate, readVars, new_psu_queue, taskVars, psu_states, psus,
                    debounceVars, bridgeVars, loopVars, queueVars, mqtt_out >>

\* message on <base>/psu/list/get
MqttListGet ==
    /\ ~shutdown
    /\ mqtt_client
    /\ msgs < MaxMsgs
    /\ msgs' = msgs + 1
    /\ Publish(OutMsg("list", "d1", TRUE, 0, {}, DOMAIN psus))
    /\ UNCHANGED << last_set, last_get, now, ticks, cfgVars, codec, shutdown, mqtt_client, sessVars, sstate,
                    readVars, new_psu_queue, taskVars, psu_states, psus,
                    debounceVars, bridgeVars, loopVars, queueVars >>

\* _delayed_state_query: the sleep is over
DelayedStateQuery(t) ==
    /\ ~shutdown
    /\ t \in delayed
    /\ now >= t.due
    /\ wq' = [wq EXCEPT ![t.psu] = PutNowait(@, GetEntry(wseq[t.psu] + 1))]
    /\ wseq' = [wseq EXCEPT ![t.psu] = IF Accepted(wq[t.psu]) THEN @ + 1 ELSE @]
    /\ pending' = pending \ {t.identity}
    /\ delayed' = delayed \ {t}
    /\ UNCHANGED << now, ticks, cfgVars, codec, shutdown, mqtt_client, inVars, sessVars, sstate,
                    readVars, new_psu_queue, taskVars, psu_states, psus,
                    bridgeVars, loopVars, mqtt_out >>

---------------------------------------------------------------------------
(* RD60xxToMQTT.run after the shutdown event: lines 108-114 *)

Shutdown ==
    /\ ~shutdown
    /\ shutdown' = TRUE
    /\ mqtt_client' = FALSE
    /\ opc' = "cancelled"
    /\ wpc' = CancelledPc({psus[i] : i \in DOMAIN psus})
    /\ wend' = CancelledEnd({psus[i] : i \in DOMAIN psus})
    /\ gs' = CancelledGs({psus[i] : i \in DOMAIN psus})
    /\ psus' = EmptyDict
    /\ UNCHANGED << now, ticks, cfgVars, codec, inVars, sessVars, sstate, presets,
                    presets_last_read, snap, curr_time, new_psu_queue, ocur,
                    otime, task_model, identity_cache, queries, psu_states,
                    debounceVars, bridgeVars, wctx, wops, wcur, last_io,
                    last_query_time, last_poll_time, deadline, queueVars, mqtt_out >>

\* asyncio.run(mqtt_bridge.run()) after run() has returned: the tasks still
\* outstanding are cancelled; a delayed state query gets CancelledError in
\* its sleep and ends there, before queue_state_get and before the discard
DelayedCancelled(t) ==
    /\ shutdown
    /\ t \in delayed
    /\ delayed' = delayed \ {t}
    /\ UNCHANGED << now, ticks, cfgVars, codec, shutdown, mqtt_client, inVars,
                    sessVars, sstate, readVars, new_psu_queue, taskVars,
                    psu_states, psus, pending, bridgeVars, loopVars,
                    queueVars, mqtt_out >>

---------------------------------------------------------------------------
Next ==
    \/ Tick(BridgeClockSteps, MaxBridgeTicks)
    \/ MqttConnected
    \/ MqttError
    \/ \E h \in Hosts, dev \in Devices : PsuConnected(h, dev)
    \/ \E s \in Sessions : PsuDisconnected(s)
    \/ OnboardBegin
    \/ OnboardQuery
    \/ \E s \in Sessions : WStart(s)
    \/ \E s \in Sessions : WClockDone(s)
    \/ \E s \in Sessions : WDrain(s)
    \/ \E s \in Sessions : WWaitEntry(s)
    \/ \E s \in Sessions : WWaitTimeout(s)
    \/ \E s \in Sessions : WCheck(s)
    \/ \E s \in Sessions : WRead(s)
    \/ \E s \in Sessions : WPublished(s)
    \/ \E s \in Sessions : WSetOp(s)
    \/ \E i \in Identities, payload \in SetPayloads : MqttSet(i, payload)
    \/ \E i \in Identities, query \in BOOLEAN : MqttGet(i, query)
    \/ MqttListGet
    \/ \E i \in Identities, topic \in {"set", "get"}, kind \in NonObjectKinds :
          MqttNotObject(i, topic, kind)
    \/ \E t \in delayed : DelayedStateQuery(t)
    \/ Shutdown
    \/ \E t \in delayed : DelayedCancelled(t)

Spec == Init /\ [][Next]_vars


---------------------------------------------------------------------------
(* Onboarding alone: sessions, the clock and _psu_task.  The bridges it     *)
(* creates are not scheduled; nothing they do is read by _psu_task.        *)

NextOnboard ==
    \/ Tick(OnboardClockSteps, MaxOnboardTicks)
    \/ \E h \in Hosts, dev \in Devices : PsuConnected(h, dev)
    \/ \E s \in Sessions : PsuDisconnected(s)
    \/ OnboardBegin
    \/ OnboardQuery
    \/ Shutdown

SpecOnboard == Init /\ [][NextOnboard]_vars

(* One bridge: the state right after the first PSU (h1, d1) was onboarded   *)
(* by a query at time 0 with no broker connection, then everything but      *)
(* further connections.                                                    *)

InitBridge ==
    /\ now = 0
    /\ ticks = 0
    /\ ttl = 0
    /\ set_clock \in BOOLEAN
    /\ default_update_period = 0
    /\ shutdown = FALSE
    /\ mqtt_client = FALSE
    /\ nconn = 1
    /\ msgs = 0
    /\ last_set = [n |-> 0, identity |-> "d1", period |-> None]
    /\ last_get = [identity |-> "d1", query |-> FALSE]
    /\ shost = [s \in Sessions |-> "h1"]
    /\ sdev = [s \in Sessions |-> "d1"]
    /\ sstate = [s \in Sessions |-> IF s = 1 THEN "open" ELSE "unborn"]
    /\ presets = [s \in Sessions |-> s = 1]
    /\ presets_last_read = [s \in Sessions |-> 0]
    /\ gs = [s \in Sessions |-> "idle"]
    /\ snap = [s \in Sessions |-> IF s = 1 THEN AllBlocks ELSE {}]
    /\ curr_time = [s \in Sessions |-> 0]
    /\ new_psu_queue = <<>>
    /\ opc = "get"
    /\ ocur = 0
    /\ otime = 0
    /\ task_model = "d1"
    /\ identity_cache = DictSet(EmptyDict, "h1", <<"d1", 0>>)
    /\ queries = [s \in Sessions |-> IF s = 1 THEN 1 ELSE 0]
    /\ psu_states = DictSet(EmptyDict, "d1", 0)
    /\ psus = DictSet(EmptyDict, "d1", 1)
    /\ pending = {}
    /\ delayed = {}
    /\ bident = [s \in Sessions |-> "d1"]
    /\ bmodel = [s \in Sessions |-> IF s = 1 THEN "d1" ELSE "unbound"]
    /\ wpc = [s \in Sessions |-> IF s = 1 THEN "start" ELSE "none"]
    /\ wctx = [s \in Sessions |-> "drain"]
    /\ wend = [s \in Sessions |-> "running"]
    /\ wq = [s \in Sessions |-> IF s = 1 THEN <<GetEntry(1)>> ELSE <<>>]
    /\ wops = [s \in Sessions |-> <<>>]
    /\ wcur = [s \in Sessions |-> 0]
    /\ wseq = [s \in Sessions |-> IF s = 1 THEN 1 ELSE 0]
    /\ last_io = [s \in Sessions |-> [n |-> 0, write |-> FALSE]]
    /\ last_query_time = [s \in Sessions |-> 0]
    /\ last_poll_time = [s \in Sessions |-> -1]
    /\ deadline = [s \in Sessions |-> -1]
    /\ mqtt_out = [n |-> 0, kind |-> "none", identity |-> "d1",
                   connected |-> FALSE, period |-> 0, blocks |-> {},
                   ids |-> NoIds]
    /\ codec = CodecIdle

NextBridge ==
    \/ Tick(BridgeClockSteps, MaxBridgeTicks)
    \/ MqttConnected
    \/ \E s \in Sessions : PsuDisconnected(s)
    \/ \E s \in Sessions : WStart(s)
    \/ \E s \in Sessions : WClockDone(s)
    \/ \E s \in Sessions : WDrain(s)
    \/ \E s \in Sessions : WWaitEntry(s)
    \/ \E s \in Sessions : WWaitTimeout(s)
    \/ \E s \in Sessions : WCheck(s)
    \/ \E s \in Sessions : WRead(s)
    \/ \E s \in Sessions : WPublished(s)
    \/ \E s \in Sessions : WSetOp(s)
    \/ \E payload \in BridgePayloads : MqttSet("d1", payload)
    \/ MqttGet("d1", TRUE)
    \/ \E t \in delayed : DelayedStateQuery(t)

SpecBridge == InitBridge /\ [][NextBridge]_vars

(* Command routing alone: the messages _mqtt_inbound handles for a PSU that  *)
(* has been onboarded (d1, connected or gone again) and for one that never  *)
(* was (d2).  The worker is not scheduled: what it does is not read by the  *)
(* message loop.                                                           *)

NextRouting ==
    \/ Tick(BridgeClockSteps, MaxBridgeTicks)
    \/ MqttConnected
    \/ MqttError
    \/ \E s \in Sessions : PsuDisconnected(s)
    \/ \E i \in Identities, payload \in SetPayloads : MqttSet(i, payload)
    \/ \E i \in Identities, query \in BOOLEAN : MqttGet(i, query)
    \/ MqttListGet
    \/ \E t \in delayed : DelayedStateQuery(t)

SpecRouting == InitBridge /\ [][NextRouting]_vars

(* Command routing with payloads that are valid JSON but no objects *)

NextMalformed ==
    \/ Tick(BridgeClockSteps, MaxBridgeTicks)
    \/ MqttConnected
    \/ MqttError
    \/ \E s \in Sessions : PsuDisconnected(s)
    \/ \E i \in Identities, payload \in SetPayloads : MqttSet(i, payload)
    \/ \E i \in Identities, query \in BOOLEAN : MqttGet(i, query)
    \/ MqttListGet
    \/ \E t \in delayed : DelayedStateQuery(t)
    \/ \E i \in Identities, topic \in {"set", "get"}, kind \in NonObjectKinds :
          MqttNotObject(i, topic, kind)

SpecMalformed == InitBridge /\ [][NextMalformed]_vars

---------------------------------------------------------------------------
(* Message routing up to and including the shutdown of the service *)

NextShutdown ==
    \/ Tick(BridgeClockSteps, MaxBridgeTicks)
    \/ MqttConnected
    \/ MqttError
    \/ \E s \in Sessions : PsuDisconnected(s)
    \/ \E i \in Identities, payload \in SetPayloads : MqttSet(i, payload)
    \/ \E i \in Identities, query \in BOOLEAN : MqttGet(i, query)
    \/ \E t \in delayed : DelayedStateQuery(t)
    \/ Shutdown
    \/ \E t \in delayed : DelayedCancelled(t)

SpecShutdown == InitBridge /\ [][NextShutdown]_vars

(* A backlog: the bridge of d1 awaits the first register read of its         *)
(* initial Get while get commands with a query have arrived from the broker *)
(* until one place of its queue is left.                                   *)

InitQueue ==
    /\ now = 0
    /\ ticks = 0
    /\ ttl = 0
    /\ set_clock = FALSE
    /\ default_update_period = 0
    /\ shutdown = FALSE
    /\ mqtt_client = TRUE
    /\ nconn = 1
    /\ msgs = 0
    /\ last_set = [n |-> 0, identity |-> "d1", period |-> None]
    /\ last_get = [identity |-> "d1", query |-> TRUE]
    /\ shost = [s \in Sessions |-> "h1"]
    /\ sdev = [s \in Sessions |-> "d1"]
    /\ sstate = [s \in Sessions |-> IF s = 1 THEN "open" ELSE "unborn"]
    /\ presets = [s \in Sessions |-> s = 1]
    /\ presets_last_read = [s \in Sessions |-> 0]
    /\ gs = [s \in Sessions |-> IF s = 1 THEN "rdA" ELSE "idle"]
    /\ snap = [s \in Sessions |-> {}]
    /\ curr_time = [s \in Sessions |-> 0]
    /\ new_psu_queue = <<>>
    /\ opc = "get"
    /\ ocur = 0
    /\ otime = 0
    /\ task_model = "d1"
    /\ identity_cache = DictSet(EmptyDict, "h1", <<"d1", 0>>)
    /\ queries = [s \in Sessions |-> IF s = 1 THEN 1 ELSE 0]
    /\ psu_states = DictSet(EmptyDict, "d1", 0)
    /\ psus = DictSet(EmptyDict, "d1", 1)
    /\ pending = {}
    /\ delayed = {}
    /\ bident = [s \in Sessions |-> "d1"]
    /\ bmodel = [s \in Sessions |-> IF s = 1 THEN "d1" ELSE "unbound"]
    /\ wpc = [s \in Sessions |-> IF s = 1 THEN "get" ELSE "none"]
    /\ wctx = [s \in Sessions |-> "drain"]
    /\ wend = [s \in Sessions |-> "running"]
    /\ wq = [s \in Sessions |->
               IF s = 1
               THEN [k \in 1..(INBOUND_QUEUE_MAXSIZE - 1) |-> GetEntry(k + 1)]
               ELSE <<>>]
    /\ wops = [s \in Sessions |-> <<>>]
    /\ wcur = [s \in Sessions |-> IF s = 1 THEN 1 ELSE 0]
    /\ wseq = [s \in Sessions |-> IF s = 1 THEN INBOUND_QUEUE_MAXSIZE ELSE 0]
    /\ last_io = [s \in Sessions |-> [n |-> 0, write |-> FALSE]]
    /\ last_query_time = [s \in Sessions |-> 0]
    /\ last_poll_time = [s \in Sessions |-> -1]
    /\ deadline = [s \in Sessions |-> -1]
    /\ mqtt_out = [n |-> 1, kind |-> "list", identity |-> "d1",
                   connected |-> TRUE, period |-> 0, blocks |-> {},
                   ids |-> {"d1"}]
    /\ codec = CodecIdle

NextQueue ==
    \/ \E s \in Sessions : WDrain(s)
    \/ \E s \in Sessions : WRead(s)
    \/ \E s \in Sessions : WPublished(s)
    \/ \E s \in Sessions : WSetOp(s)
    \/ \E payload \in BridgePayloads : MqttSet("d1", payload)
    \/ MqttGet("d1", TRUE)

SpecQueue == InitQueue /\ [][NextQueue]_vars

(* Connections faster than onboarding: the first PSU (h1, d1) has just been *)
(* onboarded by a query at time 0; while _psu_task awaited its register     *)
(* reads the PSU opened further connections until one place of              *)
(* _new_psu_queue is left.                                                  *)

\* the session onboarded first and the sessions queued behind it
Querying == 100
QueuedBehind == {Querying + k : k \in 1..(NEW_PSU_QUEUE_MAXSIZE - 1)}
Earlier == {Querying} \cup QueuedBehind
AllSessions == Sessions \cup Earlier

InitAccept ==
    /\ now = 0
    /\ ticks = 0
    /\ ttl \in TtlChoices
    /\ set_clock = FALSE
    /\ default_update_period = 0
    /\ shutdown = FALSE
    /\ mqtt_client = FALSE
    /\ nconn = 0
    /\ msgs = 0
    /\ last_set = [n |-> 0, identity |-> "d1", period |-> None]
    /\ last_get = [identity |-> "d1", query |-> FALSE]
    /\ shost = [s \in AllSessions |-> "h1"]
    /\ sdev = [s \in AllSessions |-> "d1"]
    /\ sstate = [s \in AllSessions |-> IF s \in Earlier THEN "open" ELSE "unborn"]
    /\ presets = [s \in AllSessions |-> s = Querying]
    /\ presets_last_read = [s \in AllSessions |-> 0]
    /\ gs = [s \in AllSessions |-> "idle"]
    /\ snap = [s \in AllSessions |-> IF s = Querying THEN AllBlocks ELSE {}]
    /\ curr_time = [s \in AllSessions |-> 0]
    /\ new_psu_queue = [k \in 1..(NEW_PSU_QUEUE_MAXSIZE - 1) |-> Querying + k]
    /\ opc = "get"
    /\ ocur = 0
    /\ otime = 0
    /\ task_model = "d1"
    /\ identity_cache = DictSet(EmptyDict, "h1", <<"d1", 0>>)
    /\ queries = [s \in AllSessions |-> IF s = Querying THEN 1 ELSE 0]
    /\ psu_states = DictSet(EmptyDict, "d1", 0)
    /\ psus = DictSet(EmptyDict, "d1", Querying)
    /\ pending = {}
    /\ delayed = {}
    /\ bident = [s \in AllSessions |-> "d1"]
    /\ bmodel = [s \in AllSessions |-> IF s = Querying THEN "d1" ELSE "unbound"]
    /\ wpc = [s \in AllSessions |-> IF s = Querying THEN "start" ELSE "none"]
    /\ wctx = [s \in AllSessions |-> "drain"]
    /\ wend = [s \in AllSessions |-> "running"]
    /\ wq = [s \in AllSessions |-> IF s = Querying THEN <<GetEntry(1)>> ELSE <<>>]
    /\ wops = [s \in AllSessions |-> <<>>]
    /\ wcur = [s \in AllSessions |-> 0]
    /\ wseq = [s \in AllSessions |-> IF s = Querying THEN 1 ELSE 0]
    /\ last_io = [s \in AllSessions |-> [n |-> 0, write |-> FALSE]]
    /\ last_query_time = [s \in AllSessions |-> 0]
    /\ last_poll_time = [s \in AllSessions |-> -1]
    /\ deadline = [s \in AllSessions |-> -1]
    /\ mqtt_out = [n |-> 0, kind |-> "none", identity |-> "d1",
                   connected |-> FALSE, period |-> 0, blocks |-> {},
                   ids |-> NoIds]
    /\ codec = CodecIdle

NextAccept ==
    \/ \E h \in Hosts, dev \in Devices : PsuConnected(h, dev)
    \/ \E s \in Sessions : PsuDisconnected(s)
    \/ OnboardBegin
    \/ OnboardQuery

SpecAccept == InitAccept /\ [][NextAccept]_vars

(* Reconnection: after the first PSU was onboarded, set commands that carry *)
(* only a period arrive while PSUs disconnect, connect and are onboarded,   *)
(* and the workers run.  The clock stands still, so no wait_for times out;  *)
(* the clock is not set on connection.                                     *)

\* set commands with a period and no other field
PeriodPayloads == { [period |-> Some(p), f |-> NoFields] : p \in {5, 50} }

InitReconnect == InitBridge /\ set_clock = FALSE

NextReconnect ==
    \/ MqttConnected
    \/ \E h \in Hosts, dev \in Devices : PsuConnected(h, dev)
    \/ \E s \in Sessions : PsuDisconnected(s)
    \/ OnboardBegin
    \/ OnboardQuery
    \/ \E s \in Sessions : WStart(s)
    \/ \E s \in Sessions : WDrain(s)
    \/ \E s \in Sessions : WWaitEntry(s)
    \/ \E s \in Sessions : WCheck(s)
    \/ \E s \in Sessions : WRead(s)
    \/ \E s \in Sessions : WPublished(s)
    \/ \E s \in Sessions : WSetOp(s)
    \/ \E payload \in PeriodPayloads : MqttSet("d1", payload)

SpecReconnect == InitReconnect /\ [][NextReconnect]_vars

(* A worker that is scheduled fairly: the bridge of d1 is never cancelled,   *)
(* every awaited register operation of set_state returns a full response   *)
(* (a get_state may still fail, which leaves every later poll overdue), and *)
(* a task that can run does run.                                           *)

\* the payloads of SpecBridge and a period below the minimum
LivePayloads == BridgePayloads \cup { [period |-> Some(5), f |-> NoFields] }

InitLive == InitBridge /\ set_clock = FALSE

\* a register operation of set_state returns; the task ends only where
\* set_state itself raises
WSetOpReturns(s) ==
    /\ WSetOp(s)
    /\ wend'[s] # "running" =>
          /\ wops'[s] = Tail(wops[s])
          /\ Head(wops'[s]) = "raise"

NextLive ==
    \/ Tick(BridgeClockSteps, MaxBridgeTicks)
    \/ MqttConnected
    \/ \E s \in Sessions : WStart(s)
    \/ \E s \in Sessions : WDrain(s)
    \/ \E s \in Sessions : WWaitEntry(s)
    \/ \E s \in Sessions : WWaitTimeout(s)
    \/ \E s \in Sessions : WCheck(s)
    \/ \E s \in Sessions : WRead(s)
    \/ \E s \in Sessions : WPublished(s)
    \/ \E s \in Sessions : WSetOpReturns(s)
    \/ \E payload \in LivePayloads : MqttSet("d1", payload)
    \/ MqttGet("d1", TRUE)
    \/ \E t \in delayed : DelayedStateQuery(t)

\* the event loop runs every task that is ready
WorkerFairness ==
    \A s \in Sessions :
        /\ WF_vars(WStart(s))
        /\ WF_vars(WDrain(s))
        /\ WF_vars(WWaitEntry(s))
        /\ WF_vars(WWaitTimeout(s))
        /\ WF_vars(WCheck(s))
        /\ WF_vars(WRead(s))
        /\ WF_vars(WPublished(s))
        /\ WF_vars(WSetOpReturns(s))

SpecLive == InitLive /\ [][NextLive]_vars /\ WorkerFairness

---------------------------------------------------------------------------
(* Onboarding and the first query of each worker with devices that answer   *)
(* every request in full and stay connected; no command arrives and the    *)
(* clock does not move (a device is onboarded by a query, or from the cache *)
(* when its address is known; the same device may connect again from the   *)
(* same or another address).  Every task that can run does run.            *)

\* the identity query's read is answered in full
OnboardAnswered == OnboardQuery /\ sstate' = sstate

\* set_clock's write is answered
WClockAnswered(s) == WClockDone(s) /\ wend'[s] = "running"

\* a read of the worker's get_state is answered in full
WReadAnswered(s) == WRead(s) /\ (wpc'[s] # "get" => snap'[s] = AllBlocks)

NextFirstGet ==
    \/ MqttConnected
    \/ \E h \in Hosts : PsuConnected(h, "d1")
    \/ OnboardBegin
    \/ OnboardAnswered
    \/ \E s \in Sessions : WStart(s)
    \/ \E s \in Sessions : WClockAnswered(s)
    \/ \E s \in Sessions : WDrain(s)
    \/ \E s \in Sessions : WReadAnswered(s)
    \/ \E s \in Sessions : WPublished(s)

FirstGetFairness ==
    /\ WF_vars(OnboardBegin)
    /\ WF_vars(OnboardAnswered)
    /\ \A s \in Sessions :
          /\ WF_vars(WStart(s))
          /\ WF_vars(WClockAnswered(s))
          /\ WF_vars(WDrain(s))
          /\ WF_vars(WReadAnswered(s))
          /\ WF_vars(WPublished(s))

SpecFirstGet == Init /\ [][NextFirstGet]_vars /\ FirstGetFairness

---------------------------------------------------------------------------
(* One set command of any shape, processed by the worker of a PSU of either *)
(* kind                                                                     *)

\* requests as Bridge._set_state hands them to RD60xx.set_state: every field
\* absent or present, the toggle also present and false, the OVP also 1e999
SetRequests ==
    { r \in [SetFields -> {"absent", "ok", "off", "inf"}] :
        /\ \A f \in SetFields \ {"output_toggle"} : r[f] # "off"
        /\ \A f \in SetFields \ {"ovp"} : r[f] # "inf" }

\* session 1, a PSU of kind dev, is registered and req is in its queue
SetStateQueued(dev, req) ==
    /\ now = 0
    /\ ticks = 0
    /\ ttl = 0
    /\ set_clock = FALSE
    /\ default_update_period = 0
    /\ shutdown = FALSE
    /\ mqtt_client = FALSE
    /\ nconn = 1
    /\ msgs = 0
    /\ last_set = [n |-> 0, identity |-> dev, period |-> None]
    /\ last_get = [identity |-> dev, query |-> FALSE]
    /\ shost = [s \in Sessions |-> "h1"]
    /\ sdev = [s \in Sessions |-> dev]
    /\ sstate = [s \in Sessions |-> IF s = 1 THEN "open" ELSE "unborn"]
    /\ presets = [s \in Sessions |-> s = 1]
    /\ presets_last_read = [s \in Sessions |-> 0]
    /\ gs = [s \in Sessions |-> "idle"]
    /\ snap = [s \in Sessions |-> IF s = 1 THEN AllBlocks ELSE {}]
    /\ curr_time = [s \in Sessions |-> 0]
    /\ new_psu_queue = <<>>
    /\ opc = "get"
    /\ ocur = 0
    /\ otime = 0
    /\ task_model = dev
    /\ identity_cache = DictSet(EmptyDict, "h1", <<dev, 0>>)
    /\ queries = [s \in Sessions |-> IF s = 1 THEN 1 ELSE 0]
    /\ psu_states = DictSet(EmptyDict, dev, 0)
    /\ psus = DictSet(EmptyDict, dev, 1)
    /\ pending = {}
    /\ delayed = {}
    /\ bident = [s \in Sessions |-> dev]
    /\ bmodel = [s \in Sessions |-> IF s = 1 THEN dev ELSE "unbound"]
    /\ wpc = [s \in Sessions |-> IF s = 1 THEN "start" ELSE "none"]
    /\ wctx = [s \in Sessions |-> "drain"]
    /\ wend = [s \in Sessions |-> "running"]
    /\ wq = [s \in Sessions |->
                IF s = 1 THEN <<SetEntry(req, 1)>> ELSE <<>>]
    /\ wops = [s \in Sessions |-> <<>>]
    /\ wcur = [s \in Sessions |-> 0]
    /\ wseq = [s \in Sessions |-> IF s = 1 THEN 1 ELSE 0]
    /\ last_io = [s \in Sessions |-> [n |-> 0, write |-> FALSE]]
    /\ last_query_time = [s \in Sessions |-> 0]
    /\ last_poll_time = [s \in Sessions |-> -1]
    /\ deadline = [s \in Sessions |-> -1]
    /\ mqtt_out = [n |-> 0, kind |-> "none", identity |-> dev,
                   connected |-> FALSE, period |-> 0, blocks |-> {},
                   ids |-> NoIds]
    /\ codec = CodecIdle

InitSetState == \E dev \in Devices, req \in SetRequests : SetStateQueued(dev, req)

NextSetState ==
    \/ \E s \in Sessions : WStart(s)
    \/ \E s \in Sessions : WDrain(s)
    \/ \E s \in Sessions : WSetOp(s)

SpecSetState == InitSetState /\ [][NextSetState]_vars

---------------------------------------------------------------------------
(* Onboarding after two devices have been seen: d1 connected from h1, was   *)
(* onboarded by a query and disconnected; then d2 connected from h2 and was *)
(* onboarded by a query as session 1, all at clock reading 0                *)

InitSeenTwo ==
    /\ now = 0
    /\ ticks = 0
    /\ ttl \in TtlChoices
    /\ set_clock = FALSE
    /\ default_update_period = 0
    /\ shutdown = FALSE
    /\ mqtt_client = FALSE
    /\ nconn = 1
    /\ msgs = 0
    /\ last_set = [n |-> 0, identity |-> "d2", period |-> None]
    /\ last_get = [identity |-> "d2", query |-> FALSE]
    /\ shost = [s \in Sessions |-> "h2"]
    /\ sdev = [s \in Sessions |-> "d2"]
    /\ sstate = [s \in Sessions |-> IF s = 1 THEN "open" ELSE "unborn"]
    /\ presets = [s \in Sessions |-> s = 1]
    /\ presets_last_read = [s \in Sessions |-> 0]
    /\ gs = [s \in Sessions |-> "idle"]
    /\ snap = [s \in Sessions |-> IF s = 1 THEN AllBlocks ELSE {}]
    /\ curr_time = [s \in Sessions |-> 0]
    /\ new_psu_queue = <<>>
    /\ opc = "get"
    /\ ocur = 0
    /\ otime = 0
    /\ task_model = "d2"
    /\ identity_cache = DictSet(DictSet(EmptyDict, "h1", <<"d1", 0>>),
                              "h2", <<"d2", 0>>)
    /\ queries = [s \in Sessions |-> IF s = 1 THEN 1 ELSE 0]
    /\ psu_states = DictSet(DictSet(EmptyDict, "d1", 0), "d2", 0)
    /\ psus = DictSet(EmptyDict, "d2", 1)
    /\ pending = {}
    /\ delayed = {}
    /\ bident = [s \in Sessions |-> "d2"]
    /\ bmodel = [s \in Sessions |-> IF s = 1 THEN "d2" ELSE "unbound"]
    /\ wpc = [s \in Sessions |-> IF s = 1 THEN "start" ELSE "none"]
    /\ wctx = [s \in Sessions |-> "drain"]
    /\ wend = [s \in Sessions |-> "running"]
    /\ wq = [s \in Sessions |-> IF s = 1 THEN <<GetEntry(1)>> ELSE <<>>]
    /\ wops = [s \in Sessions |-> <<>>]
    /\ wcur = [s \in Sessions |-> 0]
    /\ wseq = [s \in Sessions |-> IF s = 1 THEN 1 ELSE 0]
    /\ last_io = [s \in Sessions |-> [n |-> 0, write |-> FALSE]]
    /\ last_query_time = [s \in Sessions |-> 0]
    /\ last_poll_time = [s \in Sessions |-> -1]
    /\ deadline = [s \in Sessions |-> -1]
    /\ mqtt_out = [n |-> 0, kind |-> "none", identity |-> "d2",
                   connected |-> FALSE, period |-> 0, blocks |-> {},
                   ids |-> NoIds]
    /\ codec = CodecIdle

SpecSeenTwo == InitSeenTwo /\ [][NextOnboard]_vars

---------------------------------------------------------------------------
(* The initial gets of a PSU and of its reconnected sessions while the      *)
(* clock passes the preset refresh interval                                 *)

\* clock steps of 3 s: once short of the refresh interval, twice beyond it
PresetClockSteps == {300}

NextPresets ==
    \/ Tick(PresetClockSteps, MaxBridgeTicks)
    \/ MqttConnected
    \/ PsuConnected("h1", "d1")
    \/ OnboardBegin
    \/ OnboardQuery
    \/ \E s \in Sessions : WStart(s)
    \/ \E s \in Sessions : WDrain(s)
    \/ \E s \in Sessions : WRead(s)
    \/ \E s \in Sessions : WPublished(s)

SpecPresets == InitLive /\ [][NextPresets]_vars

(* The codec alone: one setpoint of a set command is scaled and written by  *)
(* RD60xx.set_state, then RD60xx.get_state reads it back together with the  *)
(* presets.  The PSU is taken to show what was written to M0_V / M0_C in     *)
(* OUTPUT_VOLTAGE_SET / OUTPUT_CURRENT_SET; M0_OVP / M0_OCP are read back   *)
(* themselves.                                                             *)

\* MODEL register values: with and without hardware revision digit, in and
\* out of the scaling tables
Models == {6006, 60062, 6012, 60121, 60125, 60181, 60241, 60301}

CurrentRanges == {0, 1}

\* setpoints, in 1/Unit
Values == {0, 1, 99, 12345, 50000}

\* what the PSU holds in the register at an address of the preset area
PsuRegister(address) == 100 * (address - M0_V) + 7

\* lengths of the response to the preset read: complete, or short
PresetResponseLengths == {read_count, read_count - 1}

InitCodec ==
    /\ Constructed
    /\ codec \in { [pc |-> "set", model |-> m, current_range |-> r,
                    field |-> f, value |-> v, register |-> 0, out |-> 0,
                    presets |-> <<>>] :
                      m \in Models, r \in CurrentRanges,
                      f \in SetpointFields, v \in Values }

processVars ==
    << now, ticks, ttl, set_clock, default_update_period, shutdown, mqtt_client, nconn, msgs,
       last_set, last_get, shost, sdev, sstate, presets, presets_last_read,
       gs, new_psu_queue, opc, ocur, task_model, identity_cache, queries,
       psu_states, psus, pending, delayed, bident, bmodel, wpc, wctx, wend,
       wq, wops, wcur, wseq, last_io, last_query_time, last_poll_time, deadline, snap,
       curr_time, otime, mqtt_out >>

\* RD60xx.set_state writes the setpoint
CodecSetState ==
    /\ codec.pc = "set"
    /\ codec' = [codec EXCEPT
                   !.pc = "get",
                   !.register = Encode(codec.value,
                                       EncodeScale(codec.field, codec.model,
                                                   codec.current_range))]
    /\ UNCHANGED processVars

\* RD60xx.get_state reads the setpoint and the presets; it returns None if
\* the preset read is short
CodecGetState ==
    /\ codec.pc = "get"
    /\ \E n \in PresetResponseLengths :
          IF n # read_count
          THEN codec' = [codec EXCEPT !.pc = "None"]
          ELSE codec' = [codec EXCEPT
                   !.pc = "state",
                   !.out = Decode(codec.register,
                                  DecodeScale(codec.field, codec.model,
                                              codec.current_range)),
                   !.presets = DecodePresets(
                                  [i \in 1..n |-> PsuRegister(M1_V + i - 1)],
                                  voltage_scale(codec.model),
                                  current_scale(codec.model,
                                                codec.current_range))]
    /\ UNCHANGED processVars

NextCodec == CodecSetState \/ CodecGetState

SpecCodec == InitCodec /\ [][NextCodec]_vars

\* the state InitBridge starts from, for set_clock and ttl as configured
AfterFirstOnboard ==
    /\ now = 0 /\ ~mqtt_client /\ nconn = 1 /\ sstate[1] = "open"
    /\ presets[1] /\ presets_last_read[1] = 0 /\ gs[1] = "idle"
    /\ snap[1] = AllBlocks /\ curr_time[1] = 0
    /\ new_psu_queue = <<>> /\ opc = "get" /\ ocur = 0 /\ otime = 0
    /\ task_model = "d1"
    /\ identity_cache = DictSet(EmptyDict, "h1", <<"d1", 0>>)
    /\ queries[1] = 1
    /\ psu_states = DictSet(EmptyDict, "d1", 0)
    /\ psus = DictSet(EmptyDict, "d1", 1)
    /\ bident[1] = "d1" /\ bmodel[1] = "d1" /\ wpc[1] = "start"
    /\ wq[1] = <<GetEntry(1)>> /\ wseq[1] = 1
    /\ mqtt_out.kind = "none"

---------------------------------------------------------------------------
(* Properties of the worker task and its session *)

\* C1: At any moment at most one worker task is alive for a given PSU
\* identity.  Onboarding a session whose identity already has a worker
\* overwrites _psus[identity] and leaves the earlier worker running.
OneWorkerPerIdentity ==
    \A s1, s2 \in Sessions :
        (Alive(s1) /\ Alive(s2) /\ bident[s1] = bident[s2]) => s1 = s2

\* a get_state call of the worker ends in this step without a full snapshot
GetReturnsNone(s) ==
    wpc[s] = "get" /\ gs'[s] = "idle" /\ snap'[s] # AllBlocks

\* C2: A state message is published only for a snapshot whose register blocks
\* were all read in full, and it carries connected = true; a Get processing
\* whose get_state returns None publishes nothing and leaves the worker's
\* last-query timestamp as it was.
StateOnlyFromFullRead ==
    [][ /\ \A s \in Sessions :
              GetReturnsNone(s) =>
                  /\ mqtt_out' = mqtt_out
                  /\ last_query_time'[s] = last_query_time[s]
        /\ (mqtt_out' # mqtt_out /\ mqtt_out'.kind = "state") =>
              /\ mqtt_out'.connected
              /\ mqtt_out'.blocks = AllBlocks
              /\ \E s \in Sessions : wpc[s] = "get" /\ snap'[s] = AllBlocks
      ]_vars

\* C2 witness: with the broker connected and a state message published
\* before, a later get_state failed at its second read and the worker went on
FailedGetAfterPublish ==
    /\ mqtt_client
    /\ mqtt_out.kind = "state"
    /\ \E s \in Sessions :
          /\ wpc[s] \in {"top", "check"}
          /\ gs[s] = "idle"
          /\ snap[s] = {"a"}

\* C3: Entries of one worker's queue are processed in the order they were
\* accepted: the entry taken is the oldest one queued, and no register
\* operation is done for an entry after one done for a later entry, so a
\* Set's writes all precede the reads of a Get queued behind it.
FifoProcessing ==
    [][ \A s \in Sessions :
          /\ Len(wq'[s]) < Len(wq[s]) =>
                /\ \A k \in 1..Len(wq[s]) : wq[s][k].n >= wcur'[s]
                /\ \A k \in 1..Len(wq'[s]) : wq'[s][k].n > wcur'[s]
          /\ last_io'[s].n >= last_io[s].n
      ]_vars

\* C3 witness: the first read of a Get is awaited and the latest register
\* operation was a write of the Set accepted just before that Get
GetReadsAfterSetWrites ==
    \E s \in Sessions :
        /\ wpc[s] = "get"
        /\ gs[s] = "rdA"
        /\ wcur[s] > 1
        /\ last_io[s] = [n |-> wcur[s] - 1, write |-> TRUE]

\* C4: Whenever a worker exits because of a Modbus protocol error, its
\* session has been closed.  The handler calls self.close(), which Bridge
\* does not define, so the session stays as it was.
ModbusExitClosesSession ==
    \A s \in Sessions : wend[s] = "modbus" => sstate[s] = "closed"

\* C5: A worker that exited by cancellation or by an unexpected exception
\* has its session closed.  Neither handler closes it.
EveryExitClosesSession ==
    \A s \in Sessions :
        wend[s] \in {"cancelled", "exception"} => sstate[s] = "closed"

---------------------------------------------------------------------------
(* Properties of onboarding and the address -> identity cache *)

\* _psu_task takes a session from the new-PSU queue in this step
Dequeued == Len(new_psu_queue') < Len(new_psu_queue)

\* C6: A session taken from the new-PSU queue whose address has a cache
\* entry refreshed no more than ttl before is registered under the cached
\* identity without a register read; any other session gets exactly one
\* get_state call, and the identity it is registered under is the one of the
\* PSU that answered.
CacheWithinTtl ==
    [][ /\ Dequeued =>
              LET s == Head(new_psu_queue)
                  h == shost[s]
              IN  IF /\ h \in DOMAIN identity_cache
                     /\ now - identity_cache[h][2] <= ttl
                  THEN /\ queries'[s] = 0
                       /\ gs'[s] = "idle"
                       /\ wpc'[s] = "start"
                       /\ bident'[s] = identity_cache[h][1]
                       /\ psus'[bident'[s]] = s
                  ELSE /\ queries'[s] = 1
                       /\ gs'[s] = "rdA"
                       /\ wpc'[s] = "none"
                       /\ opc' = "query"
                       /\ ocur' = s
        /\ (opc = "query" /\ opc' = "get" /\ wpc'[ocur] = "start") =>
              /\ queries'[ocur] = 1
              /\ bident'[ocur] = IdentityOf(sdev[ocur])
              /\ psus'[bident'[ocur]] = ocur
      ]_vars

\* C6 witness: a session was registered from the cache at a clock reading
\* later than the one at which an earlier session of the same address was
\* queried, under a non-zero timeout
CacheServedLater ==
    /\ ttl > 0
    /\ \E s1, s2 \in Sessions :
          /\ s1 < s2
          /\ shost[s1] = shost[s2]
          /\ queries[s1] = 1 /\ wpc[s1] # "none"
          /\ queries[s2] = 0 /\ wpc[s2] # "none"
          /\ identity_cache[shost[s2]][2] > presets_last_read[s1]

\* C7 as stated: with a timeout of 0 every onboarded session was resolved by
\* querying the device.  An entry refreshed at the very clock reading of the
\* lookup is not older than 0 and is used.
ZeroTtlAlwaysQueries ==
    ttl = 0 => \A s \in Sessions : wpc[s] # "none" => queries[s] = 1

\* C7: With a timeout of 0 a session taken from the new-PSU queue is resolved
\* by querying the device whenever its address has no cache entry or the
\* clock has advanced since the entry was refreshed; it is resolved from the
\* cache only at the clock reading of the entry's refresh.
ZeroTtlQueriesOnceClockMoved ==
    [][ (Dequeued /\ ttl = 0) =>
            LET s == Head(new_psu_queue)
                h == shost[s]
            IN  /\ (h \notin DOMAIN identity_cache \/ identity_cache[h][2] < now)
                      => (queries'[s] = 1 /\ opc' = "query" /\ gs'[s] = "rdA")
                /\ queries'[s] = 0
                      => (h \in DOMAIN identity_cache /\ identity_cache[h][2] = now)
      ]_vars

\* C7 witness: with a timeout of 0, a session is being queried although its
\* address has a cache entry, refreshed before the clock reading of the lookup
ZeroTtlRequery ==
    /\ ttl = 0
    /\ opc = "query"
    /\ queries[ocur] = 1
    /\ shost[ocur] \in DOMAIN identity_cache
    /\ identity_cache[shost[ocur]][2] < otime

\* the identity query of _psu_task ends in this step without a full snapshot
QueryReturnsNone ==
    opc = "query" /\ gs'[ocur] = "idle" /\ snap'[ocur] # AllBlocks

\* C8: When the identity query of a dequeued session fails, the session is
\* closed, no worker is created for it, the bridge map, the persistent states
\* and the cache stay as they were, nothing is published, and _psu_task is
\* back at the queue for the next session.
FailedQueryDropsSession ==
    [][ QueryReturnsNone =>
            /\ sstate'[ocur] = "closed"
            /\ wpc'[ocur] = "none"
            /\ wpc' = wpc
            /\ psus' = psus
            /\ psu_states' = psu_states
            /\ identity_cache' = identity_cache
            /\ mqtt_out' = mqtt_out
            /\ opc' = "get"
      ]_vars

\* C8 witness: a session's identity query failed at its second read, the
\* session is closed and has no worker, and a later session was onboarded
FailedQueryThenNext ==
    \E s1, s2 \in Sessions :
        /\ s1 < s2
        /\ queries[s1] = 1 /\ gs[s1] = "idle" /\ snap[s1] = {"a"}
        /\ sstate[s1] = "closed"
        /\ wpc[s1] = "none"
        /\ wpc[s2] = "start"

---------------------------------------------------------------------------
(* Properties of the update period *)

\* _mqtt_inbound handles a state/set message in this step
SetHandled == msgs' = msgs + 1 /\ last_set'.n = msgs'

\* C9: Every stored update period is 0 or at least 0.1 s, whatever numeric
\* period a set command carries.  A period of NaN passes the type test, is
\* unequal to 0, and max(NaN, 0.1) is NaN, which is stored.
StoredPeriodZeroOrFloor ==
    \A i \in DOMAIN psu_states :
        psu_states[i] = 0 \/ Ge(psu_states[i], MIN_UPDATE_PERIOD)

\* the floor for the periods that are numbers: 0 is stored as 0, any other
\* as the larger of itself and 0.1 s
PeriodFloorForNumbers ==
    [][ (/\ SetHandled
         /\ last_set'.period # None
         /\ last_set'.period # Some(NaN)
         /\ last_set'.identity \in DOMAIN psu_states) =>
            LET p == last_set'.period[1]
            IN  psu_states'[last_set'.identity] =
                   IF p = 0 THEN 0
                   ELSE IF p > MIN_UPDATE_PERIOD THEN p
                   ELSE MIN_UPDATE_PERIOD
      ]_vars

\* C10 as stated: the period of the latest set command is stored for its
\* identity whatever the identity.  For an identity that was never onboarded
\* there is no persistent state and none is created.
PeriodStoredForAnyIdentity ==
    last_set.period # None =>
        /\ last_set.identity \in DOMAIN psu_states
        /\ psu_states[last_set.identity] = ClampPeriod(last_set.period[1])

\* C10: A set command's numeric period is stored for every identity that has
\* a persistent state, with or without a connected worker; for an identity
\* that was never onboarded nothing is stored and no state is created.  The
\* command is put on a worker's queue exactly when one is registered for the
\* identity, and on no other queue.
PeriodStoredOnceOnboarded ==
    [][ SetHandled =>
            LET i == last_set'.identity
            IN  /\ (i \in DOMAIN psu_states /\ last_set'.period # None) =>
                      psu_states' =
                         [psu_states EXCEPT ![i] = ClampPeriod(last_set'.period[1])]
                /\ (i \notin DOMAIN psu_states \/ last_set'.period = None) =>
                      psu_states' = psu_states
                /\ \A s \in Sessions :
                      IF i \in DOMAIN psus /\ psus[i] = s
                      THEN /\ Len(wq'[s]) = Len(wq[s]) + 1
                           /\ wq'[s][Len(wq'[s])].set
                      ELSE wq'[s] = wq[s]
      ]_vars

\* C10 witness: d1 has no worker any more, no set command is on the queue its
\* worker left behind, and its stored period is the one of the latest set
\* command: the period was stored while d1 was not connected
PeriodStoredWhileDisconnected ==
    /\ "d1" \notin DOMAIN psus
    /\ last_set.identity = "d1"
    /\ last_set.period = Some(50)
    /\ psu_states["d1"] = 50
    /\ \A k \in 1..Len(wq[1]) : ~wq[1][k].set

---------------------------------------------------------------------------
(* Properties of command routing *)

\* _mqtt_inbound handles a state/get message in this step
GetHandled ==
    /\ msgs' = msgs + 1
    /\ last_set' = last_set
    /\ ~(mqtt_out' # mqtt_out /\ mqtt_out'.kind = "list")

\* C11: A get command is put on a worker's queue only if its payload has a
\* truthy query and a worker is registered for the identity, and then nothing
\* is published; in every other case exactly one status reply is published,
\* with connected taken from the worker map and period from the persistent
\* state (0 for an identity without one), and no queue changes.  Either way
\* no register operation is started.
GetForwardedOrAnswered ==
    [][ GetHandled =>
          LET i == last_get'.identity
          IN  /\ IF last_get'.query /\ i \in DOMAIN psus
                 THEN /\ wq'[psus[i]] = Append(wq[psus[i]], GetEntry(wseq'[psus[i]]))
                      /\ \A s \in Sessions \ {psus[i]} : wq'[s] = wq[s]
                      /\ mqtt_out' = mqtt_out
                 ELSE /\ wq' = wq
                      /\ mqtt_out'.n # mqtt_out.n
                      /\ mqtt_out'.kind = "status"
                      /\ mqtt_out'.identity = i
                      /\ mqtt_out'.connected = (i \in DOMAIN psus)
                      /\ mqtt_out'.period =
                            (IF i \in DOMAIN psu_states THEN psu_states[i] ELSE 0)
              /\ gs' = gs /\ last_io' = last_io /\ wops' = wops /\ wpc' = wpc
              /\ psu_states' = psu_states /\ psus' = psus
      ]_vars

\* C11 witness: a get with a truthy query for an identity that never
\* connected was answered by a status reply {connected: false, period: 0}
QueryForUnknownAnswered ==
    /\ last_get = [identity |-> "d2", query |-> TRUE]
    /\ mqtt_out.kind = "status"
    /\ mqtt_out.identity = "d2"
    /\ ~mqtt_out.connected
    /\ mqtt_out.period = 0

\* C12: At most one delayed state query is outstanding per identity, and the
\* pending set marks exactly the identities that have one: a state-changing
\* set for a connected identity schedules one only if none is pending, any
\* other set schedules none, and a delayed query that fires puts exactly one
\* Get on its worker's queue and clears the marker.
DebounceCoalesces ==
    [][ /\ \A i \in Identities : Cardinality({t \in delayed' : t.identity = i}) <= 1
        /\ pending' = {t.identity : t \in delayed'}
        /\ SetHandled =>
              LET i == last_set'.identity
              IN  IF /\ i \in DOMAIN psus
                     /\ i \notin pending
                     /\ StateChanging(wq'[psus[i]][Len(wq'[psus[i]])].req)
                  THEN delayed' = delayed \cup
                          {[identity |-> i, psu |-> psus[i],
                            due |-> now + STATE_QUERY_DELAY]}
                  ELSE delayed' = delayed
        /\ delayed' # delayed /\ ~SetHandled =>
              \E t \in delayed :
                  /\ delayed' = delayed \ {t}
                  /\ now >= t.due
                  /\ wq'[t.psu] = Append(wq[t.psu], GetEntry(wseq'[t.psu]))
                  /\ \A s \in Sessions \ {t.psu} : wq'[s] = wq[s]
      ]_vars

\* C12 witness: two state-changing set commands were queued one after the
\* other for one worker, one Get followed them, and no delayed query is left
TwoSetsOneDelayedGet ==
    /\ delayed = {}
    /\ pending = {}
    /\ \E s \in Sessions :
          /\ Len(wq[s]) = 4
          /\ wq[s][2].set /\ StateChanging(wq[s][2].req)
          /\ wq[s][3].set /\ StateChanging(wq[s][3].req)
          /\ ~wq[s][4].set

\* C13: When a worker is removed because its session disconnected, the
\* identity's pending marker is cleared and, the broker being connected, a
\* status message {connected: false, period: <stored period>} is published
\* for the identity.  psu_disconnected cancels the task and removes the
\* bridge from the map; it neither touches the pending set nor publishes.
DisconnectClearsAndPublishes ==
    [][ \A i \in DOMAIN psus :
          (i \notin DOMAIN psus' /\ sstate'[psus[i]] = "closed" /\ mqtt_client) =>
              /\ i \notin pending'
              /\ mqtt_out' # mqtt_out
              /\ mqtt_out'.kind = "status"
              /\ mqtt_out'.identity = i
              /\ ~mqtt_out'.connected
              /\ mqtt_out'.period = psu_states[i]
      ]_vars

\* C14: After every change of the set of registered workers (a worker added
\* by onboarding, a worker removed by a disconnect) the device list is
\* published, the broker being connected, and holds exactly the identities
\* registered after the change.  _send_psu_list is called by _psu_task and
\* for a list request, never by psu_disconnected.
ListFollowsWorkerMap ==
    [][ (DOMAIN psus' # DOMAIN psus /\ mqtt_client /\ ~shutdown') =>
            /\ mqtt_out' # mqtt_out
            /\ mqtt_out'.kind = "list"
            /\ mqtt_out'.ids = DOMAIN psus'
      ]_vars

---------------------------------------------------------------------------
(* Properties of the bounded queues *)

\* C15: A worker's queue never holds more than 64 entries.  A command handed
\* to a worker whose queue holds 64 is dropped: the handler returns, the
\* queued entries and their order are as before and no entry number is given
\* out; what the worker processes is what it takes from the head of its queue.
FullQueueRejects ==
    [][ \A s \in Sessions :
          /\ Len(wq'[s]) <= INBOUND_QUEUE_MAXSIZE
          /\ (Len(wq[s]) = INBOUND_QUEUE_MAXSIZE /\ msgs' = msgs + 1) =>
                (wq'[s] = wq[s] /\ wseq'[s] = wseq[s])
          /\ (wcur'[s] # wcur[s] /\ wcur'[s] # 0) =>
                (wq[s] # <<>> /\ wcur'[s] = wq[s][1].n /\ wq'[s] = Tail(wq[s]))
      ]_vars

\* C15 witness: a get with a query and then a set command were handled for
\* the connected d1, only one of them was given an entry number, and the
\* queue holds 64 entries
CommandDroppedAtCapacity ==
    /\ msgs = 2
    /\ last_get = [identity |-> "d1", query |-> TRUE]
    /\ last_set.n = 2 /\ last_set.identity = "d1"
    /\ "d1" \in DOMAIN psus
    /\ wseq[psus["d1"]] = INBOUND_QUEUE_MAXSIZE + 1
    /\ Len(wq[psus["d1"]]) = INBOUND_QUEUE_MAXSIZE
    /\ ~wq[psus["d1"]][INBOUND_QUEUE_MAXSIZE].set

\* C16: psu_connected is one step that awaits nothing, and _new_psu_queue
\* never holds more than 16 sessions: a session arriving while 16 are queued
\* is closed in that step and put nowhere, any other arriving session is put
\* at the end of the queue and stays open; _psu_task onboards only the
\* session it takes from the head of the queue.
AcceptBoundedByQueue ==
    [][ /\ Len(new_psu_queue') <= NEW_PSU_QUEUE_MAXSIZE
        /\ nconn' # nconn =>
              IF Len(new_psu_queue) = NEW_PSU_QUEUE_MAXSIZE
              THEN /\ sstate'[nconn'] = "closed"
                   /\ new_psu_queue' = new_psu_queue
                   /\ << taskVars, wpc, psus >>' = << taskVars, wpc, psus >>
              ELSE /\ sstate'[nconn'] = "open"
                   /\ new_psu_queue' = Append(new_psu_queue, nconn')
        /\ (nconn' = nconn /\ new_psu_queue' # new_psu_queue) =>
              (new_psu_queue # <<>> /\ new_psu_queue' = Tail(new_psu_queue))
        /\ \A s \in DOMAIN sstate :
              (queries'[s] # queries[s] \/ (wpc[s] = "none" /\ wpc'[s] # "none")) =>
                  \/ new_psu_queue # <<>> /\ s = Head(new_psu_queue)
                  \/ s = ocur
      ]_vars

\* C16 witness: with 16 sessions queued, a session that arrived is closed,
\* is not in the queue, was never queried and has no bridge
SessionTurnedAway ==
    /\ Len(new_psu_queue) = NEW_PSU_QUEUE_MAXSIZE
    /\ \E s \in Sessions :
          /\ s <= nconn
          /\ sstate[s] = "closed"
          /\ \A k \in 1..Len(new_psu_queue) : new_psu_queue[k] # s
          /\ queries[s] = 0
          /\ wpc[s] = "none"
          /\ \E r \in Sessions : r < s /\ new_psu_queue[NEW_PSU_QUEUE_MAXSIZE] = r

----------------------------------------------------------------------------
(* Properties of Bridge._set_state *)

\* the worker takes a set command with a field that fails coercion
TakesUncoercible(s) ==
    /\ wpc[s] \in {"top", "wait"}
    /\ wq[s] # <<>>
    /\ wq'[s] = Tail(wq[s])
    /\ Head(wq[s]).set
    /\ \/ Head(wq[s]).req["preset_index"] \notin {"absent", "ok"}
       \/ \E f \in {"output_voltage_set", "output_current_set", "ovp", "ocp"} :
             Head(wq[s]).req[f] = "bad"

\* C17: If a supplied field of a Set payload fails coercion, the worker does
\* no register read or write for that command and applies none of its other
\* fields: in the step that takes the command it is back in its main loop
\* with no register operation planned, it has not ended, and its session is
\* as it was, so that the next command is taken from the queue.
BadSetDiscardedWhole ==
    [][ \A s \in Sessions :
          TakesUncoercible(s) =>
              /\ wcur'[s] = Head(wq[s]).n
              /\ wpc'[s] \in {"top", "check"}
              /\ wops'[s] = <<>>
              /\ last_io' = last_io
              /\ gs' = gs
              /\ wend'[s] = "running"
              /\ sstate' = sstate
      ]_vars

\* C17 witness: the worker of an open session awaits the first register
\* operation of its third entry, and the latest register operation was done
\* for its first entry: the second entry, a set command whose voltage failed
\* coercion, was taken and caused none
NextTakenAfterBadSet ==
    \E s \in Sessions :
        /\ sstate[s] = "open"
        /\ wend[s] = "running"
        /\ wcur[s] = 3
        /\ wpc[s] \in {"get", "set"}
        /\ last_io[s].n = 1
        /\ last_set.n >= 1

----------------------------------------------------------------------------
(* Properties of the register scaling *)

\* C18: For every model and current range, the scale the encoder multiplies
\* a setpoint field by equals the scale the decoder divides that field's
\* register by, so that what get_state reports for a setpoint written by
\* set_state differs from it by less than one scale unit.  The code scales
\* OCP by the ranged current scale when writing and by the unranged one when
\* reading.
EncoderDecoderScalesAgree ==
    codec.pc = "state" =>
        /\ EncodeScale(codec.field, codec.model, codec.current_range)
             = DecodeScale(codec.field, codec.model, codec.current_range)
        /\ Abs(codec.out - codec.value)
             * DecodeScale(codec.field, codec.model, codec.current_range) < Unit

\* the fields whose round trip keeps the value: all but OCP of a model that
\* uses the current range, in range 0
RoundTripExceptRangedOcp ==
    (codec.pc = "state" /\ ~(codec.field = "ocp" /\ use_current_range(codec.model)
                                /\ codec.current_range = 0)) =>
        /\ EncodeScale(codec.field, codec.model, codec.current_range)
             = DecodeScale(codec.field, codec.model, codec.current_range)
        /\ Abs(codec.out - codec.value)
             * DecodeScale(codec.field, codec.model, codec.current_range) < Unit

\* the registers of memory slot M<slot>, scaled: (voltage, current, OVP, OCP)
SlotEntry(slot) ==
    LET vscale == voltage_scale(codec.model)
        cscale == current_scale(codec.model, codec.current_range)
    IN  << Decode(PsuRegister(M0_V + 4 * slot), vscale),
           Decode(PsuRegister(M0_V + 4 * slot + 1), cscale),
           Decode(PsuRegister(M0_V + 4 * slot + 2), vscale),
           Decode(PsuRegister(M0_V + 4 * slot + 3), cscale) >>

\* C19 as stated: every snapshot of a successful decode carries a preset
\* list of exactly 10 entries in slot order, each (voltage, current, OVP,
\* OCP), also for model 60301.
TenPresetsInSlotOrder ==
    codec.pc = "state" =>
        /\ Len(codec.presets) = 10
        /\ \A k \in 1..Len(codec.presets) : codec.presets[k] = SlotEntry(k - 1)

\* C19: every snapshot of a successful decode carries a preset list of
\* exactly 9 entries, the memory slots M1 to M9 in slot order (M0, the slot
\* of the active settings, is not in the list), each entry ordered (voltage,
\* current, OVP, OCP), also for model 60301.
NinePresetsFromM1 ==
    codec.pc = "state" =>
        /\ Len(codec.presets) = 9
        /\ \A k \in 1..Len(codec.presets) : codec.presets[k] = SlotEntry(k)

\* C19 witness: a snapshot was decoded for model 60301 and its list ends with
\* slot M9
Decoded60301Presets ==
    /\ codec.pc = "state"
    /\ codec.model = 60301
    /\ codec.presets # <<>>
    /\ codec.presets[Len(codec.presets)] = SlotEntry(9)

----------------------------------------------------------------------------
(* Properties of the persistent state *)

\* C20: There is one PSUState per identity and it is never removed; its
\* update_period changes only by a set command that carries a period for
\* that identity, so it survives disconnection and onboarding; a state is
\* created with period 0 only for an identity that has none; every bridge is
\* created with the state of its identity, and the timeout its worker waits
\* with is computed from the period stored for that identity.
PeriodSurvivesReconnect ==
    [][ /\ DOMAIN psu_states \subseteq DOMAIN psu_states'
        /\ \A i \in DOMAIN psu_states :
              psu_states'[i] # psu_states[i] =>
                  /\ msgs' = msgs + 1
                  /\ last_set'.identity = i
                  /\ last_set'.period # None
                  /\ psu_states'[i] = ClampPeriod(last_set'.period[1])
        /\ \A i \in DOMAIN psu_states' \ DOMAIN psu_states : psu_states'[i] = 0
        /\ \A s \in Sessions :
              (wpc[s] = "none" /\ wpc'[s] = "start") =>
                  bident'[s] \in DOMAIN psu_states'
        /\ \A s \in Sessions :
              (wpc[s] = "top" /\ wpc'[s] = "wait") =>
                  deadline'[s] =
                      IF psu_states[bident[s]] > 0
                      THEN now + Max(psu_states[bident[s]]
                                       - (now - last_query_time[s]), 0)
                      ELSE -1
      ]_vars

\* C20 witness: the first session of d1 is closed, a later session is the
\* registered bridge of d1, no set command was ever put into its queue, and
\* its worker waits with the timeout of the period 50 set for d1 earlier
ReconnectedWorkerKeepsPeriod ==
    /\ sstate[1] = "closed"
    /\ "d1" \in DOMAIN psus
    /\ psus["d1"] > 1
    /\ wseq[psus["d1"]] = 1
    /\ psu_states["d1"] = 50
    /\ last_set.period = Some(50)
    /\ wpc[psus["d1"]] = "wait"
    /\ deadline[psus["d1"]] = now + 50

----------------------------------------------------------------------------
(* Properties of the worker's main loop *)

\* the periodic check of worker s starts a Get
PollStarts(s) == wpc[s] = "check" /\ wpc'[s] = "get" /\ wctx'[s] = "poll"

\* C21: No periodic Get starts in a worker while commands are in its queue:
\* all queued commands are drained before any fresh poll, also when several
\* commands arrived while the worker was blocked in wait_for.
DrainBeforePoll ==
    [][ \A s \in Sessions : PollStarts(s) => wq[s] = <<>> ]_vars

\* entry n is in the queue of worker s
InQueue(s, n) == \E k \in 1..Len(wq[s]) : wq[s][k].n = n

EntryNumbers == 1..(MaxMsgs + 1)

\* C22: Under fair scheduling, with register operations that always return
\* and the worker not cancelled, every command accepted into a worker's
\* queue is eventually taken from it and processed, also with polling at the
\* minimum period and with every poll overdue.
AcceptedEventuallyProcessed ==
    \A s \in Sessions, n \in EntryNumbers :
        InQueue(s, n) ~> (wcur[s] = n)

\* what does hold: an accepted command is processed unless the task has ended
\* by then; polling never keeps a command in the queue
ProcessedUnlessTaskEnded ==
    \A s \in Sessions, n \in EntryNumbers :
        InQueue(s, n) ~> (wcur[s] = n \/ wend[s] # "running")

\* C23: A failed Get, explicit or periodic, never ends the worker: in the
\* step in which get_state returns None the task goes on in its main loop,
\* it has not ended, and the session is as it was; commands enqueued later
\* are taken and processed.
FailedGetKeepsWorker ==
    [][ \A s \in Sessions :
          (GetReturnsNone(s) /\ wend'[s] # "cancelled") =>
              /\ wpc'[s] \in {"top", "check"}
              /\ wend'[s] = "running"
              /\ sstate' = sstate
              /\ wq' = wq
      ]_vars

\* C23 witness: the latest get_state of a worker returned None, its session
\* is open, and the worker awaits the first register operation of a set
\* command it took from the queue after that
LaterCommandAfterFailedGet ==
    \E s \in Sessions :
        /\ sstate[s] = "open"
        /\ wend[s] = "running"
        /\ gs[s] = "idle"
        /\ snap[s] # AllBlocks
        /\ wpc[s] = "set"
        /\ wcur[s] >= 2
        /\ last_io[s].n < wcur[s]
        /\ ~last_io[s].write

\* a get_state call begins in worker s
GetBegins(s) == wpc[s] # "get" /\ wpc'[s] = "get"

\* worker s takes a Get command from its queue
TakesGet(s) ==
    /\ wq[s] # <<>>
    /\ ~Head(wq[s]).set
    /\ wq'[s] = Tail(wq[s])
    /\ wcur'[s] = Head(wq[s]).n

\* C24: While the update period of a worker is 0 it waits on its queue with
\* no timeout, no poll is started by the periodic check, and a get_state
\* begins exactly when the worker takes a Get command from its queue.
NoPollWhilePeriodZero ==
    [][ \A s \in Sessions :
          (wpc[s] \notin {"none", "done"} /\ Period(s) = 0) =>
              /\ (wpc[s] = "top" /\ wpc'[s] = "wait") => deadline'[s] = -1
              /\ ~PollStarts(s)
              /\ GetBegins(s) <=> TakesGet(s)
      ]_vars

\* C24 witness: with period 0 and the clock two steps on, the worker has
\* processed the get command that was forwarded to it as its second entry
\* and waits again with no timeout
WaitsForeverAfterExplicitGet ==
    \E s \in Sessions :
        /\ Period(s) = 0
        /\ now >= 2 * STATE_QUERY_DELAY
        /\ wpc[s] = "wait"
        /\ deadline[s] = -1
        /\ wq[s] = <<>>
        /\ wcur[s] = 2
        /\ last_io[s] = [n |-> 2, write |-> FALSE]
        /\ last_get.query
        /\ last_set.n = 0

\* the periodic check of worker s would find its period elapsed
PollOverdue(s) == wpc[s] \notin {"none", "start"} /\ PollDue(s)

\* C25: With a period p > 0 a worker waits on its empty queue for
\* max(p - time since the last successful poll, 0) and no longer, and
\* whenever the period has elapsed since the last successful poll it goes on
\* to perform a Get, so that snapshots keep being published.
OverduePollPerformed ==
    \A s \in Sessions :
        PollOverdue(s) ~> (wpc[s] = "get" \/ ~PollOverdue(s))

\* what the loop does guarantee: the wait's timeout is the rest of the period
\* and the periodic check starts a poll exactly when the period has elapsed
WaitAndCheckFollowPeriod ==
    [][ \A s \in Sessions :
          /\ (wpc[s] = "top" /\ wpc'[s] = "wait" /\ Gt(Period(s), 0)) =>
                /\ deadline'[s] >= now
                /\ deadline'[s] - now =
                      Max(Period(s) - (now - last_query_time[s]), 0)
          /\ (wpc[s] = "wait" /\ wpc'[s] # "wait" /\ wq'[s] = wq[s]) =>
                (deadline[s] >= 0 /\ now >= deadline[s] /\ wpc'[s] = "check")
          /\ (wpc[s] = "check" /\ wpc'[s] # "check") =>
                (PollStarts(s) <=>
                    (Gt(Period(s), 0) /\
                     Gt(now - last_query_time[s], Period(s))))
      ]_vars

\* and an overdue poll is performed for as long as the task runs
OverduePollPerformedWhileRunning ==
    \A s \in Sessions :
        PollOverdue(s) ~>
            (wpc[s] = "get" \/ ~PollOverdue(s) \/ wend[s] # "running")

\* C26: A delayed state query removes its identity from the pending set on
\* every way it can end, after the delay and by cancellation during the
\* delay alike, so no identity is marked pending without a delayed query
\* outstanding for it.
DelayedQueryAlwaysClearsMarker ==
    [][ /\ \A t \in delayed : t \notin delayed' => t.identity \notin pending'
        /\ pending' \subseteq {t.identity : t \in delayed'}
      ]_vars

\* what holds: the marker is cleared by the delayed query that completes
\* its sleep, and while the service runs it marks an outstanding query
CompletedQueryClearsMarker ==
    [][ /\ \A t \in delayed :
              (t \notin delayed' /\ ~shutdown) => t.identity \notin pending'
        /\ ~shutdown' => pending' = {t.identity : t \in delayed'}
      ]_vars

\* the number, within the get_state call in progress on session s, of the
\* register read that is awaited (0: none)
ReadAwaited(s) ==
    CASE gs[s] = "rdA" -> 1
      [] gs[s] = "rdB" -> 2
      [] gs[s] = "rdP" -> 3
      [] OTHER -> 0

\* the identity query of _psu_task returns a state in this step and the
\* session is registered under the identity read from it
FreshIdentityProduced ==
    opc = "query" /\ opc' = "get" /\ wpc'[ocur] = "start"

\* C27: A fresh (non-cached) identity resolution issues exactly one register
\* read through the session before the identity is produced.
FreshResolutionReadsOnce ==
    [][ FreshIdentityProduced => ReadAwaited(ocur) = 1 ]_vars

\* C27 as amended: a fresh resolution makes exactly one get_state call on the
\* session, and that call issues three register reads one after the other
\* (the block from MODEL, the M0 OVP/OCP pair, the presets) before the
\* identity is produced.
FreshResolutionReadsThrice ==
    [][ /\ (opc = "get" /\ opc' = "query") =>
              /\ queries'[ocur'] = queries[ocur'] + 1
              /\ gs[ocur'] = "idle"
              /\ gs'[ocur'] = "rdA"
        /\ (opc = "query" /\ opc' = "query") =>
              /\ queries' = queries
              /\ gs'[ocur] # gs[ocur] =>
                    ReadAwaited(ocur)' = ReadAwaited(ocur) + 1
        /\ FreshIdentityProduced =>
              /\ queries' = queries
              /\ ReadAwaited(ocur) = 3
              /\ snap'[ocur] = AllBlocks
      ]_vars

\* C27 witness: a session was registered after one get_state call whose
\* three reads were all answered
RegisteredAfterThreeReads ==
    \E s \in Sessions :
        /\ wpc[s] = "start"
        /\ queries[s] = 1
        /\ gs[s] = "idle"
        /\ snap[s] = AllBlocks
        /\ presets[s]
        /\ opc = "get"

\* session s is registered under an identity in this step
Resolved(s) == wpc[s] = "none" /\ wpc'[s] = "start"

\* C28: Every successful resolution, served from the cache or by a fresh
\* query, sets the cache entry of the session's address to the resolved
\* identity and the time read when the session was taken from the queue, so
\* the timeout counts from the latest successful connection from the address.
ResolutionRefreshesCache ==
    [][ /\ (opc = "get" /\ opc' = "query") => otime' = now
        /\ \A s \in Sessions :
              Resolved(s) =>
                  /\ shost[s] \in DOMAIN identity_cache'
                  /\ identity_cache'[shost[s]] =
                        << bident'[s], IF opc = "get" THEN now ELSE otime >>
                  /\ opc = "get" => bident'[s] = identity_cache[shost[s]][1]
                  /\ opc = "query" => bident'[s] = IdentityOf(sdev[s])
        /\ identity_cache' # identity_cache => \E s \in Sessions : Resolved(s)
      ]_vars

\* C28 witness: a session was resolved from the cache, with no query, after
\* the clock had advanced, and the entry of its address carries that later
\* time
CachedResolutionRefreshed ==
    \E s \in Sessions :
        /\ wpc[s] = "start"
        /\ queries[s] = 0
        /\ opc = "get"
        /\ identity_cache[shost[s]] = << bident[s], now >>
        /\ now > 0

IsWrite(op) == op \in {"wr_preset", "wr_vc", "wr_v", "wr_c", "wr_ovp",
                       "wr_ocp", "wr_enable", "wr_toggle"}

\* the request fields a register write carries
WriteFields(op) ==
    CASE op = "wr_preset" -> {"preset_index"}
      [] op = "wr_vc" -> {"output_voltage_set", "output_current_set"}
      [] op = "wr_v" -> {"output_voltage_set"}
      [] op = "wr_c" -> {"output_current_set"}
      [] op = "wr_ovp" -> {"ovp"}
      [] op = "wr_ocp" -> {"ocp"}
      [] op = "wr_enable" -> {"output_enable"}
      [] op = "wr_toggle" -> {"output_toggle"}

\* place of a write in the order preset, voltage/current, OVP, OCP,
\* output enable, toggle
WriteRank(op) ==
    CASE op = "wr_preset" -> 1
      [] op \in {"wr_vc", "wr_v", "wr_c"} -> 2
      [] op = "wr_ovp" -> 3
      [] op = "wr_ocp" -> 4
      [] op = "wr_enable" -> 5
      [] op = "wr_toggle" -> 6

PresentFields(req) == {f \in SetFields : req[f] # "absent"}

\* worker s calls set_state in this step
SetStateCalled(s) == wpc[s] # "set" /\ wpc'[s] = "set"

\* C29: set_state issues register writes only for fields present in the
\* request, in the order preset, voltage/current, OVP, OCP, output enable,
\* toggle; voltage and current both present are written by one two-register
\* write and never by two single writes; with no field present nothing is
\* written.  The register operations are issued one at a time in that order.
WritesFollowRequest ==
    [][ \A s \in Sessions :
          /\ SetStateCalled(s) =>
                LET req == Head(wq[s]).req
                    W == SelectSeq(wops'[s], IsWrite)
                IN  /\ \A i \in DOMAIN W : WriteFields(W[i]) \subseteq PresentFields(req)
                    /\ \A i, j \in DOMAIN W : i < j => WriteRank(W[i]) < WriteRank(W[j])
                    /\ {"output_voltage_set", "output_current_set"}
                            \subseteq PresentFields(req) =>
                          /\ \E i \in DOMAIN W : W[i] = "wr_vc"
                          /\ \A i \in DOMAIN W : W[i] \notin {"wr_v", "wr_c"}
                    /\ PresentFields(req) = {} => W = <<>>
          /\ (wpc[s] = "set" /\ wops'[s] # wops[s]) => wops'[s] = Tail(wops[s])
      ]_vars

\* C29 witness: of a request with every field present the preset write has
\* been issued; the two-register write, OVP, OCP, output enable and the
\* toggle (a read and a write) follow
AllFieldsPresetWritten ==
    \E s \in Sessions :
        /\ wpc[s] = "set"
        /\ last_io[s] = [n |-> 1, write |-> TRUE]
        /\ wops[s] = << "wr_vc", "wr_ovp", "wr_ocp", "wr_enable",
                        "rd_enable", "wr_toggle" >>

\* C30: The effective current scale is base x 10 for a model flagged as
\* range-switchable whose current-range register reads 0, and base otherwise;
\* the encoder multiplies the current-valued setpoints by it, and every
\* current-valued field of a snapshot (current setpoint, OCP, preset current
\* and preset OCP) is decoded with it.
CurrentFieldsShareEffectiveScale ==
    codec.pc = "state" =>
        LET base == current_scale_without_range(codec.model)
            effective == IF use_current_range(codec.model)
                            /\ codec.current_range = 0
                         THEN base * 10 ELSE base
        IN  /\ codec.field \in {"output_current_set", "ocp"} =>
                  /\ codec.register = Encode(codec.value, effective)
                  /\ codec.out = Decode(codec.register, effective)
            /\ \A k \in DOMAIN codec.presets :
                  /\ codec.presets[k][2] =
                        Decode(PsuRegister(M1_V + 4 * (k - 1) + 1), effective)
                  /\ codec.presets[k][4] =
                        Decode(PsuRegister(M1_V + 4 * (k - 1) + 3), effective)

\* what holds: the encoder, the current setpoint and the presets use the
\* effective scale; the OCP of the snapshot is decoded with the base scale
\* whatever the range
SnapshotOcpDecodedWithBase ==
    codec.pc = "state" =>
        LET base == current_scale_without_range(codec.model)
            effective == IF use_current_range(codec.model)
                            /\ codec.current_range = 0
                         THEN base * 10 ELSE base
        IN  /\ codec.field \in {"output_current_set", "ocp"} =>
                  codec.register = Encode(codec.value, effective)
            /\ codec.field = "output_current_set" =>
                  codec.out = Decode(codec.register, effective)
            /\ codec.field = "ocp" =>
                  codec.out = Decode(codec.register, base)
            /\ \A k \in DOMAIN codec.presets :
                  /\ codec.presets[k][2] =
                        Decode(PsuRegister(M1_V + 4 * (k - 1) + 1), effective)
                  /\ codec.presets[k][4] =
                        Decode(PsuRegister(M1_V + 4 * (k - 1) + 3), effective)

\* C31: get_state reads the preset registers only when the session has no
\* preset list or the last refresh is more than 5 s old; otherwise the
\* snapshot carries the cached list and no preset read is issued.  A preset
\* read that fails leaves the list and the refresh time as they were and
\* gives no snapshot; one that succeeds stores the list and the time read
\* before it.
PresetsReadWhenEmptyOrStale ==
    [][ \A s \in Sessions :
          /\ (gs[s] = "rdB" /\ gs'[s] # "rdB" /\ "b" \in snap'[s]) =>
                IF ~presets[s] \/ now - presets_last_read[s] > 500
                THEN gs'[s] = "rdP" /\ "p" \notin snap'[s]
                ELSE /\ gs'[s] = "idle"
                     /\ snap'[s] = AllBlocks
                     /\ presets'[s] = presets[s]
                     /\ presets_last_read'[s] = presets_last_read[s]
          /\ (gs[s] = "rdP" /\ gs'[s] # "rdP") =>
                IF "p" \in snap'[s]
                THEN /\ presets'[s]
                     /\ presets_last_read'[s] = curr_time[s]
                     /\ curr_time[s] <= now
                ELSE /\ presets'[s] = presets[s]
                     /\ presets_last_read'[s] = presets_last_read[s]
                     /\ snap'[s] # AllBlocks
                     /\ mqtt_out' = mqtt_out
                     /\ last_query_time' = last_query_time
          /\ (gs'[s] = "rdP" /\ gs[s] # "rdP") => gs[s] = "rdB"
          /\ (presets'[s] # presets[s]
                \/ presets_last_read'[s] # presets_last_read[s]) => gs[s] = "rdP"
      ]_vars

\* C31 witness: a session whose presets had been read at time 0 refreshed
\* them in a get 6 s later and published the snapshot
PresetsRefreshedAfterInterval ==
    \E s \in Sessions :
        /\ queries[s] = 1
        /\ presets[s]
        /\ presets_last_read[s] = 600
        /\ gs[s] = "idle"
        /\ snap[s] = AllBlocks
        /\ last_query_time[s] = 600

\* C32: Every worker held in the identity-to-worker map has a task that has
\* not ended: after a task has ended through a protocol failure or another
\* exception its identity is not registered any more, so it is not reported
\* as connected and no command is enqueued to it.
RegisteredWorkersRun ==
    \A i \in DOMAIN psus :
        /\ wend[psus[i]] = "running"
        /\ wpc[psus[i]] # "done"

\* C33: Every worker held in the identity-to-worker map is bound to a session
\* that has not been reported disconnected; a session whose disconnect is
\* reported while it waits in the new-PSU queue is never registered, also
\* when its identity is served from the cache.
RegisteredSessionsConnected ==
    \A i \in DOMAIN psus : sstate[psus[i]] = "open"

\* what holds: a session reported disconnected is not registered by a
\* resolution that queries it
QueriedSessionsConnected ==
    \A i \in DOMAIN psus :
        queries[psus[i]] > 0 => sstate[psus[i]] = "open"

\* C34: The model and serial number recorded for a registered worker, which
\* the device list publishes, are those its identity was formed from, also
\* when the identity was served from the cache after sessions of other
\* devices were onboarded.
WorkerModelMatchesIdentity ==
    \A i \in DOMAIN psus : IdentityOf(bmodel[psus[i]]) = bident[psus[i]]

\* what holds: a worker registered by a query carries the model and serial
\* number read from its own session
QueriedWorkerModelMatches ==
    \A i \in DOMAIN psus :
        queries[psus[i]] > 0 =>
            /\ bmodel[psus[i]] = sdev[psus[i]]
            /\ IdentityOf(bmodel[psus[i]]) = bident[psus[i]]

\* a periodic Get of worker s returns without a snapshot in this step
PollFails(s) ==
    /\ wpc[s] = "get" /\ wctx[s] = "poll"
    /\ wpc'[s] = "top" /\ snap'[s] # AllBlocks

WaitUsesPeriod(s) ==
    IF Gt(Period(s), 0)
    THEN /\ deadline[s] >= last_query_time[s] + Period(s)
         /\ deadline[s] <= Max(last_query_time[s] + Period(s), now)
    ELSE deadline[s] = -1

\* worker s is blocked in wait_for with a timeout computed from another
\* period than the one a set command has just stored, and the command has
\* been put on its queue
PeriodChangedWhileBlocked(s) ==
    /\ wpc[s] = "wait"
    /\ wend[s] = "running"
    /\ last_set.n > 0
    /\ last_set.period # None
    /\ wq[s] # <<>>
    /\ ~WaitUsesPeriod(s)

\* C36: A set command that changes update_period for a connected identity
\* takes effect without a further command: the worker blocked in its wait,
\* with no timeout or a long one, is woken by the forwarded command, and its
\* next wait uses the new period.
NewPeriodUsedByNextWait ==
    \A s \in Sessions :
        PeriodChangedWhileBlocked(s) ~>
            (wpc[s] = "wait" /\ wq[s] = <<>> /\ WaitUsesPeriod(s))

\* as long as the task of the worker has not ended, the worker woken by the
\* command does reach a wait computed from the new period
NewPeriodUsedUnlessTaskEnded ==
    \A s \in Sessions :
        PeriodChangedWhileBlocked(s) ~>
            \/ wend[s] # "running"
            \/ wpc[s] = "wait" /\ wq[s] = <<>> /\ WaitUsesPeriod(s)

\* C37: When the debounce delay expires, the delayed re-query is enqueued on
\* the worker registered for the identity at that moment, never on a worker
\* removed or replaced during the delay; with no worker registered nothing
\* is enqueued.
DelayedQueryGoesToRegistered ==
    [][ \A t \in delayed \ delayed' :
          \A s \in Sessions :
              wq'[s] # wq[s] =>
                  /\ t.identity \in DOMAIN psus
                  /\ psus[t.identity] = s
      ]_vars

\* the worker of session s has handed a snapshot of its identity to the
\* publish callback, which is sending it
SnapshotHandedOver(s) ==
    /\ wpc[s] = "pub"
    /\ mqtt_out.kind = "state"
    /\ mqtt_out.identity = bident[s]
    /\ mqtt_out.blocks = AllBlocks

\* C38: After a session is onboarded an initial Get is enqueued for its
\* worker: with a device that answers and a connected broker a snapshot of
\* the identity is eventually published without any inbound command, even
\* with update period 0.
InitialSnapshotPublished ==
    \A s \in Sessions :
        (wpc[s] = "start" /\ mqtt_client) ~> SnapshotHandedOver(s)

\* C38 witness: no command has arrived, the period of the identity is 0 and
\* the worker's first snapshot is being published
FirstSnapshotWithoutCommand ==
    \E s \in Sessions :
        /\ SnapshotHandedOver(s)
        /\ msgs = 0
        /\ Period(s) = 0
        /\ wseq[s] = 1
        /\ wq[s] = <<>>

\* C39: A message on a set or get topic whose payload is valid JSON but not
\* an object is discarded without an exception leaving the message loop: the
\* broker session stays connected, so later messages are processed.
NonObjectPayloadKeepsSession ==
    [][ (\E i \in Identities, topic \in {"set", "get"}, kind \in NonObjectKinds :
            MqttNotObject(i, topic, kind)) =>
        mqtt_client'
      ]_vars

\* C40: The PersistentDeviceState created on an identity's first connection
\* takes the configured default update period, so that a nonzero default
\* starts periodic polling without a set command.
NewStateTakesDefaultPeriod ==
    [][ \A i \in DOMAIN psu_states' \ DOMAIN psu_states :
          psu_states'[i] = default_update_period
      ]_vars

\* whatever default is configured, a newly created state has period 0, and
\* a worker whose identity has period 0 waits without a timeout
NewStateHasPeriodZero ==
    [][ \A i \in DOMAIN psu_states' \ DOMAIN psu_states :
          psu_states'[i] = 0
      ]_vars

=============================================================================
